---------------------------- MODULE Spec2Model ----------------------------
(***************************************************************************)
(* The Chrome network interception layer of the crawler:                   *)
(* spider_chrome/src/handler/network.rs, the NetworkManager state machine  *)
(* over CDP network events, its URL classifiers and its outgoing queue.    *)
(* The frontier and the crawl loop of the engine are modelled next to it,  *)
(* from their specification.  The pure functions have callers of their     *)
(* own: the Trie, ignore_script, and the selectors and queries of          *)
(* spider_utils/src/lib.rs.                                                *)
(*                                                                         *)
(* URLs are TLA+ strings; Len, SubSeq and \o act on them character-wise.   *)
(* Option<T> is a sequence: <<>> is None and <<x>> is Some(x).             *)
(***************************************************************************)
EXTENDS Naturals, Integers, Sequences, FiniteSets, TLC

(***************************************************************************)
(* Bounds of the model.                                                    *)
(***************************************************************************)
\* A redirect is followed while the record's redirect_chain is shorter.
MaxChain == 2
\* A traced run pushes events while fewer than MaxTrace have been pushed.
MaxTrace == 2
\* A counted run handles calls while fewer than MaxEvents request events
\* have been counted.
MaxEvents == 4

(***************************************************************************)
(* Inputs.                                                                 *)
(***************************************************************************)
RequestIds == {"r1", "r2"}
\* fetch::RequestId of Fetch.requestPaused / Fetch.authRequired; it is the
\* interception id of the paused request.
InterceptionIds == {"i1", "i2"}
Responses == {"resp"}
RedirectResponses == {"redirect"}
ErrorTexts == {"net::ERR_FAILED"}
CredentialsSet == {[username |-> "user", password |-> "pass"]}
HeaderKeys == {"proxy-authorization", "x-a", "x-b"}
HeaderMaps == UNION {[K -> {"v"}] : K \in SUBSET HeaderKeys}
ResourceTypes ==
    {"Document", "Stylesheet", "Image", "Media", "Font", "Script", "Xhr",
     "Fetch", "Prefetch", "Ping", "Other"}
PausedUrls ==
    {"https://cdn/react.production.min.js",
     "react.production.min.js",
     "https://www.google-analytics.com/ga.js",
     "https://a.test/js/track.js",
     "https://www.youtube.com/embed/x",
     "https://play.google.com/log?x",
     "https://open.spotify.com/x",
     "https://a.test/s.css",
     "https://a.test/s.scss",
     "https://a.test/p.PNG",
     "https://a.test/page",
     "https://a.test/x.c"}
WillBeSentUrls == {"https://a.test/page", "data:text/plain,x"}

None == <<>>
Some(x) == <<x>>
IsSome(o) == o # <<>>
Unwrap(o) == o[1]

(***************************************************************************)
(* Strings.                                                                *)
(***************************************************************************)
Min(a, b) == IF a <= b THEN a ELSE b

\* str::starts_with
StartsWith(s, p) == Len(p) <= Len(s) /\ SubSeq(s, 1, Len(p)) = p

\* str::ends_with
EndsWith(s, p) ==
    Len(p) <= Len(s) /\ SubSeq(s, Len(s) - Len(p) + 1, Len(s)) = p

\* str::contains: p occurs in s.
StrContains(s, p) ==
    \E k \in 1..(Len(s) + 1) :
        k + Len(p) - 1 <= Len(s) /\ SubSeq(s, k, k + Len(p) - 1) = p

\* str::rfind('.'): the 0-based byte position of the last '.', None if absent.
RfindDot(s) ==
    LET dots == {k \in 1..Len(s) : SubSeq(s, k, k) = "."}
    IN  IF dots = {} THEN None
        ELSE Some((CHOOSE k \in dots : \A j \in dots : j <= k) - 1)

UpperChars == "ABCDEFGHIJKLMNOPQRSTUVWXYZ"
LowerChars == "abcdefghijklmnopqrstuvwxyz"

\* char::to_ascii_lowercase on a one-character string.
LowerChar(c) ==
    LET hit == {k \in 1..26 : SubSeq(UpperChars, k, k) = c}
    IN  IF hit = {} THEN c
        ELSE LET k == CHOOSE k \in hit : TRUE IN SubSeq(LowerChars, k, k)

RECURSIVE ToLower(_)
ToLower(s) ==
    IF Len(s) = 0 THEN s
    ELSE LowerChar(SubSeq(s, 1, 1)) \o ToLower(SubSeq(s, 2, Len(s)))

\* Equality of two CaseInsensitiveString values ignores ASCII case.
CaseInsensitiveEq(a, b) == ToLower(a) = ToLower(b)

(***************************************************************************)
(* The static tables.                                                      *)
(***************************************************************************)
JS_FRAMEWORK_ALLOW ==
    {"jquery.min.js", "jquery.qtip.min.js", "jquery.js", "angular.js",
     "jquery.slim.js", "react.development.js", "react-dom.development.js",
     "react.production.min.js", "react-dom.production.min.js",
     "vue.global.js", "vue.esm-browser.js", "vue.js", "bootstrap.min.js",
     "bootstrap.bundle.min.js", "bootstrap.esm.min.js", "d3.min.js", "d3.js",
     "app.js", "main.js", "index.js",
     "https://m.stripe.network/inner.html",
     "https://m.stripe.network/out-4.5.43.js",
     "https://challenges.cloudflare.com/turnstile",
     "https://js.stripe.com/v3/"}

IGNORE_VISUAL_RESOURCE_MAP == {"Image", "Media", "Font", "Other"}

IGNORE_NETWORKING_RESOURCE_MAP == {"Prefetch", "Ping"}

URL_IGNORE_PATTERNS ==
    {"https://www.googletagservices.com/tag/",
     "https://js.hs-analytics.net/analytics/",
     "https://js.hsadspixel.net",
     "https://www.google.com/adsense/",
     "https://www.googleadservices.com",
     "https://adservice.google.com",
     "https://www.gstatic.com/cv/js/sender/",
     "https://googleads.g.doubleclick.net",
     "https://www.google-analytics.com",
     "https://www.googletagmanager.com",
     "https://iabusprivacy.pmc.com/geo-info.js",
     "https://cdn.onesignal.com",
     "https://cdn.cookielaw.org/",
     "https://static.doubleclick.net",
     "https://cdn.piano.io",
     "https://px.ads.linkedin.com",
     "https://connect.facebook.net",
     "https://tags.tiqcdn.com",
     "https://tr.snapchat.com",
     "https://ads.twitter.com",
     "https://cdn.segment.com",
     "https://stats.wp.com",
     "https://analytics.",
     "http://analytics.",
     "https://cdn.cxense.com",
     "https://cdn.tinypass.com",
     "https://cd.connatix.com",
     ".newrelic.com",
     ".googlesyndication.com",
     ".amazon-adsystem.com",
     ".onetrust.com",
     "sc.omtrdc.net",
     "doubleclick.net",
     "hotjar.com",
     "datadome.com",
     "datadog-logs-us.js",
     "tinypass.min.js",
     ".airship.com",
     ".adlightning.com",
     "privacy-notice.js",
     "tracking.js",
     "ads.js",
     "https://ads.",
     "http://ads.",
     "https://tracking.",
     "http://tracking.",
     "https://geo.privacymanager.io/"}

URL_IGNORE_XHR_PATTERNS ==
    {"https://play.google.com/log?",
     "https://googleads.g.doubleclick.net/pagead/id",
     "https://js.monitor.azure.com/scripts",
     "https://securepubads.g.doubleclick.net",
     "https://pixel-config.reddit.com/pixels",
     "https://www.amazon.com/af/feedback-link?",
     "https://tr.snapchat.com/config/",
     "https://collect.tealiumiq.com/",
     "https://s.yimg.com/wi",
     "https://disney.my.sentry.io/api/",
     "https://www.redditstatic.com/ads",
     "https://buy.tinypass.com/",
     "https://idx.liadm.com",
     "https://geo.privacymanager.io/",
     "https://nimbleplot.com",
     "googlesyndication.com",
     ".piano.io/",
     ".browsiprod.com",
     ".onetrust.com/consent/",
     "https://logs.",
     "/track.php"}

URL_IGNORE_EMBEDED_PATTERNS ==
    {"https://www.youtube.com/embed/",
     "https://www.google.com/maps/embed?",
     "https://player.vimeo.com/video/",
     "https://open.spotify.com/embed/",
     "https://w.soundcloud.com/player/",
     "https://platform.twitter.com/embed/",
     "https://www.instagram.com/embed.js",
     "https://www.facebook.com/plugins/",
     "https://cdn.embedly.com/widgets/",
     "https://player.twitch.tv/",
     "https://insight.adsrvr.org/track/",
     "cxense.com/",
     "https://tr.snapchat.com/",
     "https://buy.tinypass.com",
     "https://nimbleplot.com/",
     "https://kit.fontawesome.com/",
     "https://use.typekit.net",
     "https://cdn.tailwindcss.com",
     "https://googleads.g.doubleclick.net",
     "amazon-adsystem.com",
     "g.doubleclick.net",
     "googlesyndication.com",
     "adsafeprotected.com",
     ".googlesyndication.com/safeframe/",
     "/ccpa/user-consent.min.js",
     "privacy-notice.js"}

URL_IGNORE_XHR_MEDIA_PATTERNS ==
    {"https://www.youtube.com/s/player/",
     "https://www.vimeo.com/player/",
     "https://soundcloud.com/player/",
     "https://open.spotify.com/",
     "https://api.spotify.com/v1/",
     "https://music.apple.com/"}

IGNORE_XHR_ASSETS ==
    {"jpg", "jpeg", "png", "gif", "svg", "webp",
     "mp4", "avi", "mov", "wmv", "flv",
     "mp3", "wav", "ogg",
     "woff", "woff2", "ttf", "otf",
     "swf", "xap",
     "ico", "eot",
     ".jpg", ".jpeg", ".png", ".gif", ".svg", ".webp",
     ".mp4", ".avi", ".mov", ".wmv", ".flv",
     ".mp3", ".wav", ".ogg",
     ".woff", ".woff2", ".ttf", ".otf",
     ".swf", ".xap",
     ".ico", ".eot"}

CSS_EXTENSION == "css"


(***************************************************************************)
(* The prefix trie.  A node is named by the path of characters that leads  *)
(* to it from the root; children holds the nodes below the root and ends   *)
(* the nodes whose is_end_of_word is set.                                  *)
(***************************************************************************)
TrieNew == [children |-> {}, ends |-> {}]

\* Trie::insert: walk from the root creating the missing nodes, then mark
\* the node reached.
TrieInsert(trie, word) ==
    [children |-> trie.children \cup {SubSeq(word, 1, k) : k \in 1..Len(word)},
     ends     |-> trie.ends \cup {word}]

\* The trie after Trie::insert of every pattern of a table, in any order.
TrieOf(patterns) ==
    [children |-> UNION {TrieInsert(TrieNew, p).children : p \in patterns},
     ends     |-> UNION {TrieInsert(TrieNew, p).ends : p \in patterns}]

\* Trie::contains_prefix: the loop follows the characters of text from the
\* root while the current node has the child, and returns true at the first
\* node reached whose is_end_of_word is set.
contains_prefix(trie, text) ==
    \E k \in 1..Len(text) :
        /\ \A j \in 1..k : SubSeq(text, 1, j) \in trie.children
        /\ SubSeq(text, 1, k) \in trie.ends

URL_IGNORE_TRIE == TrieOf(URL_IGNORE_PATTERNS)
URL_IGNORE_XHR_TRIE == TrieOf(URL_IGNORE_XHR_PATTERNS)
URL_IGNORE_EMBEDED_TRIE == TrieOf(URL_IGNORE_EMBEDED_PATTERNS)
URL_IGNORE_XHR_MEDIA_TRIE == TrieOf(URL_IGNORE_XHR_MEDIA_PATTERNS)

(***************************************************************************)
(* The URL classifiers.                                                    *)
(***************************************************************************)
\* ignore_script without the test of the file endings.
IgnoreScriptTrieOnly(url) == contains_prefix(URL_IGNORE_TRIE, url)

\* ignore_script: a prefix in URL_IGNORE_TRIE, or else one of four endings.
ignore_script(url) ==
    LET hit == contains_prefix(URL_IGNORE_TRIE, url)
    IN  IF ~hit
        THEN \/ EndsWith(url, "analytics.js")
             \/ EndsWith(url, "ads.js")
             \/ EndsWith(url, "tracking.js")
             \/ EndsWith(url, "track.js")
        ELSE hit

ignore_script_embedded(url) == contains_prefix(URL_IGNORE_EMBEDED_TRIE, url)

ignore_script_xhr(url) == contains_prefix(URL_IGNORE_XHR_TRIE, url)

ignore_script_xhr_media(url) ==
    contains_prefix(URL_IGNORE_XHR_MEDIA_TRIE, url)

\* phf::Set::contains on JS_FRAMEWORK_ALLOW: the whole string is a member.
JsFrameworkAllowed(url) == url \in JS_FRAMEWORK_ALLOW

\* HashSet<CaseInsensitiveString>::contains on IGNORE_XHR_ASSETS.
IgnoreXhrAssetsContains(ext) ==
    \E a \in IGNORE_XHR_ASSETS : CaseInsensitiveEq(a, ext)


(***************************************************************************)
(* The state of a NetworkManager.                                          *)
(***************************************************************************)
VARIABLES
    queued_events,
    requests,
    requests_will_be_sent,
    extra_headers,
    request_id_to_interception_id,
    user_cache_disabled,
    attempted_authentications,
    credentials,
    user_request_interception_enabled,
    protocol_request_interception_enabled,
    offline,
    ignore_visuals,
    block_stylesheets,
    block_javascript,
    block_analytics,
    only_html,
    \* History: the last call made on the manager, with its arguments.
    last,
    \* History: the interception ids answered with ProvideCredentials.
    provided,
    \* History: the request ids a requestWillBeSent with a URL that is no
    \* data: URL announced while interception was needed (user interception
    \* or credentials), and that no requestPaused has named since.
    awaiting,
    \* History, kept while tracing: every event pushed on queued_events and
    \* every event poll returned, in order.
    tracing,
    enqueued,
    dequeued,
    \* History, kept while counting: for every request id, how many Request
    \* events and how many RequestFinished or RequestFailed events were
    \* pushed for it, and the request ids for which responseReceived pushed
    \* a RequestFinished and no Request event was pushed since.
    lifecycle

(***************************************************************************)
(* The state of the crawl: the frontier, its configuration, the fetches in *)
(* flight and the Page stream.                                             *)
(***************************************************************************)
VARIABLES
    \* The URL keys discovered at least once.
    visited,
    \* The URL keys ready to fetch, each with its depth, in FIFO order.
    pending,
    \* Configuration: the maximum of pages to enqueue and the maximum link
    \* depth, 0 for unbounded.
    limit,
    depth,
    \* The URLs popped by a worker whose fetch has not completed.
    in_flight,
    \* The Pages published so far, in order.
    pages,
    \* History: every key appended to pending and every key pop returned,
    \* in order.
    appended,
    popped

(***************************************************************************)
(* The state of a call of one of the pure functions: the Trie a caller     *)
(* builds and the value the last call returned.                            *)
(***************************************************************************)
VARIABLES
    \* The Trie of the caller.
    root,
    \* History: the words inserted into root.
    words,
    \* The value the last call of a function returned, None after a call
    \* that returns nothing.
    returned

\* The state of the crawl.
crawl_state ==
    <<visited, pending, limit, depth, in_flight, pages, appended, popped>>

\* The state of the pure functions.
call_state == <<root, words, returned>>

\* The state outside the NetworkManager.
outside == <<crawl_state, call_state>>

knobs ==
    <<ignore_visuals, block_stylesheets, block_javascript, block_analytics,
      only_html>>

interception ==
    <<user_request_interception_enabled,
      protocol_request_interception_enabled, credentials>>

pairing == <<requests_will_be_sent, request_id_to_interception_id>>

vars ==
    <<queued_events, requests, requests_will_be_sent, extra_headers,
      request_id_to_interception_id, user_cache_disabled,
      attempted_authentications, credentials,
      user_request_interception_enabled,
      protocol_request_interception_enabled, offline, ignore_visuals,
      block_stylesheets, block_javascript, block_analytics, only_html,
      last, provided, awaiting, tracing, enqueued, dequeued, lifecycle,
      outside>>

(***************************************************************************)
(* HashMap helpers: a map is a function whose domain is its key set.       *)
(***************************************************************************)
EmptyMap == [k \in {} |-> None]
MapInsert(m, k, v) == [x \in DOMAIN m \cup {k} |-> IF x = k THEN v ELSE m[x]]
MapRemove(m, k) == [x \in DOMAIN m \ {k} |-> m[x]]
MapGet(m, k) == IF k \in DOMAIN m THEN Some(m[k]) ELSE None

(***************************************************************************)
(* NetworkEvent and the CDP commands the manager sends.                    *)
(***************************************************************************)
SendCdpRequest(method, params) ==
    [kind |-> "SendCdpRequest", method |-> method, params |-> params]
Request(request_id) == [kind |-> "Request", request_id |-> request_id]
RequestFailed(request) == [kind |-> "RequestFailed", request |-> request]
RequestFinished(request) == [kind |-> "RequestFinished", request |-> request]

SetExtraHttpHeadersParams(headers) ==
    SendCdpRequest("Network.setExtraHTTPHeaders", [headers |-> headers])
SetCacheDisabledParams(cache_disabled) ==
    SendCdpRequest("Network.setCacheDisabled",
                   [cache_disabled |-> cache_disabled])
FetchEnableParams ==
    SendCdpRequest("Fetch.enable",
                   [handle_auth_requests |-> TRUE, url_pattern |-> "*"])
DisableParams == SendCdpRequest("Fetch.disable", [disable |-> TRUE])
ContinueRequestParams(request_id) ==
    SendCdpRequest("Fetch.continueRequest", [request_id |-> request_id])
FulfillRequestParams(request_id, response_code) ==
    SendCdpRequest("Fetch.fulfillRequest",
                   [request_id |-> request_id,
                    response_code |-> response_code,
                    body |-> None])
ContinueWithAuthParams(request_id, auth) ==
    SendCdpRequest("Fetch.continueWithAuth",
                   [request_id |-> request_id,
                    auth_challenge_response |-> auth])
EmulateNetworkConditionsParams(off) ==
    SendCdpRequest("Network.emulateNetworkConditions",
                   [offline |-> off, latency |-> 0,
                    download_throughput |-> -1, upload_throughput |-> -1])

\* AuthChallengeResponse with the credentials on_fetch_auth_required adds.
AuthChallengeResponse(response, creds) ==
    [response |-> response,
     username |-> IF IsSome(creds) THEN Some(Unwrap(creds).username) ELSE None,
     password |-> IF IsSome(creds) THEN Some(Unwrap(creds).password) ELSE None]

(***************************************************************************)
(* HttpRequest (handler/http.rs), the record kept per RequestId.           *)
(***************************************************************************)
HttpRequestNew(request_id, interception_id, redirect_chain) ==
    [request_id        |-> request_id,
     interception_id   |-> interception_id,
     redirect_chain    |-> redirect_chain,
     from_memory_cache |-> FALSE,
     failure_text      |-> None,
     response          |-> None]

set_response(request, response) ==
    [request EXCEPT !.response = Some(response)]

(***************************************************************************)
(* The call recorded in last.                                              *)
(***************************************************************************)
Call(op, args) == [op |-> op, args |-> args]
NoArgs == [none |-> TRUE]

\* The events a step pushed on queued_events (none for a poll).
Pushed ==
    IF Len(queued_events') >= Len(queued_events)
    THEN SubSeq(queued_events', Len(queued_events) + 1, Len(queued_events'))
    ELSE <<>>

\* A traced run interleaves calls and polls freely and is cut once MaxTrace
\* events have been pushed.  An untraced run is unbounded: its transport
\* drains queued_events between two calls, which no call can observe, as
\* calls only push on the queue.
\* How many of the events evs are of one of the kinds and for request r.
EventsFor(evs, kinds, r) ==
    Cardinality({k \in 1..Len(evs) :
                     /\ evs[k].kind \in kinds
                     /\ IF evs[k].kind = "Request" THEN evs[k].request_id = r
                        ELSE evs[k].request.request_id = r})

\* lifecycle after the events evs are pushed.
Counted(evs) ==
    IF lifecycle.counting
    THEN [lifecycle EXCEPT
              !.requested =
                  [r \in RequestIds |-> @[r] + EventsFor(evs, {"Request"}, r)],
              !.ended =
                  [r \in RequestIds |->
                       @[r] + EventsFor(evs, {"RequestFinished",
                                              "RequestFailed"}, r)],
              !.responded =
                  {r \in RequestIds :
                       IF EventsFor(evs, {"Request"}, r) > 0 THEN FALSE
                       ELSE IF /\ last'.op = "on_response_received"
                               /\ EventsFor(evs, {"RequestFinished"}, r) > 0
                       THEN TRUE
                       ELSE r \in @}]
    ELSE lifecycle

RECURSIVE SumOver(_, _)
SumOver(f, S) ==
    IF S = {} THEN 0
    ELSE LET x == CHOOSE x \in S : TRUE IN f[x] + SumOver(f, S \ {x})

\* The number of events counted so far.
CountedEvents ==
    SumOver(lifecycle.requested, RequestIds)
        + SumOver(lifecycle.ended, RequestIds)

CanRun ==
    /\ IF tracing THEN Len(enqueued) < MaxTrace
       ELSE queued_events = <<>>
    /\ lifecycle.counting => CountedEvents < MaxEvents

\* push_back on queued_events, for every event of evs in order.
Emit(evs) ==
    /\ queued_events' = queued_events \o evs
    /\ enqueued' = IF tracing THEN enqueued \o evs ELSE enqueued
    /\ lifecycle' = Counted(evs)
    /\ UNCHANGED <<tracing, dequeued>>


(***************************************************************************)
(* NetworkManager::new                                                     *)
(***************************************************************************)
New ==
    /\ queued_events = <<>>
    /\ requests = EmptyMap
    /\ requests_will_be_sent = EmptyMap
    /\ extra_headers = EmptyMap
    /\ request_id_to_interception_id = EmptyMap
    /\ user_cache_disabled = FALSE
    /\ attempted_authentications = {}
    /\ credentials = None
    /\ user_request_interception_enabled = FALSE
    /\ protocol_request_interception_enabled = FALSE
    /\ offline = FALSE
    /\ ignore_visuals = FALSE
    /\ block_javascript = FALSE
    /\ block_stylesheets = FALSE
    /\ block_analytics = TRUE
    /\ only_html = FALSE

\* Nothing is counted.
NoCount ==
    [counting |-> FALSE,
     requested |-> [r \in RequestIds |-> 0],
     ended |-> [r \in RequestIds |-> 0],
     responded |-> {}]

NoHistory ==
    /\ last = Call("new", NoArgs)
    /\ provided = {}
    /\ awaiting = {}
    /\ enqueued = <<>>
    /\ dequeued = <<>>
    /\ lifecycle = NoCount

\* No crawl is running.
NoCrawl ==
    /\ visited = {}
    /\ pending = <<>>
    /\ limit = 0
    /\ depth = 0
    /\ in_flight = {}
    /\ pages = <<>>
    /\ appended = <<>>
    /\ popped = <<>>

\* No function was called: the caller's Trie is Trie::new().
NoCall ==
    /\ root = TrieNew
    /\ words = {}
    /\ returned = None

Init == New /\ NoHistory /\ tracing = FALSE /\ NoCrawl /\ NoCall

(***************************************************************************)
(* poll                                                                    *)
(***************************************************************************)
\* VecDeque::pop_back
PopBack(queue) ==
    [item |-> queue[Len(queue)], rest |-> SubSeq(queue, 1, Len(queue) - 1)]

\* VecDeque::pop_front on a queue that is not empty.
PopFront(queue) == [item |-> Head(queue), rest |-> Tail(queue)]

poll ==
    /\ IF queued_events # <<>>
       THEN LET front == PopFront(queued_events)
            IN  /\ queued_events' = front.rest
                /\ dequeued' = IF tracing
                               THEN Append(dequeued, front.item)
                               ELSE dequeued
       ELSE UNCHANGED <<queued_events, dequeued>>
    /\ last' = Call("poll", NoArgs)
    /\ UNCHANGED <<requests, extra_headers, user_cache_disabled,
                   attempted_authentications, offline, provided, awaiting,
                   tracing, enqueued, lifecycle>>
    /\ UNCHANGED <<knobs, interception, pairing>>
    /\ UNCHANGED outside

(***************************************************************************)
(* Configuration calls.                                                    *)
(***************************************************************************)
\* RemoveProxyAuthorization without the removal.
RemoveProxyAuthorizationKept(headers) == headers

\* HashMap::remove
RemoveProxyAuthorization(headers) == MapRemove(headers, "proxy-authorization")

set_extra_headers(headers) ==
    /\ CanRun
    /\ extra_headers' = RemoveProxyAuthorization(headers)
    /\ Emit(<<SetExtraHttpHeadersParams(extra_headers')>>)
    /\ last' = Call("set_extra_headers", [headers |-> headers])
    /\ UNCHANGED <<requests, user_cache_disabled, attempted_authentications,
                   offline, provided,
                   awaiting>>
    /\ UNCHANGED <<knobs, interception, pairing>>
    /\ UNCHANGED outside

\* update_protocol_cache_disabled: the command it pushes.
update_protocol_cache_disabled(cache_disabled) ==
    SetCacheDisabledParams(
        cache_disabled \/ protocol_request_interception_enabled)

\* update_protocol_request_interception, called once the fields hold user
\* and creds: the commands it pushes.  It assigns no field.
update_protocol_request_interception(user, creds) ==
    LET enabled == user \/ IsSome(creds)
    IN  IF enabled = protocol_request_interception_enabled THEN <<>>
        ELSE <<update_protocol_cache_disabled(user_cache_disabled),
               IF enabled THEN FetchEnableParams ELSE DisableParams>>

set_request_interception(enabled) ==
    /\ CanRun
    /\ user_request_interception_enabled' = enabled
    /\ Emit(update_protocol_request_interception(enabled, credentials))
    /\ last' = Call("set_request_interception", [enabled |-> enabled])
    /\ UNCHANGED <<requests, extra_headers, user_cache_disabled,
                   attempted_authentications, offline, provided, awaiting,
                   protocol_request_interception_enabled, credentials>>
    /\ UNCHANGED <<knobs, pairing>>
    /\ UNCHANGED outside

set_cache_enabled(enabled) ==
    /\ CanRun
    /\ user_cache_disabled' = ~enabled
    /\ Emit(<<update_protocol_cache_disabled(user_cache_disabled')>>)
    /\ last' = Call("set_cache_enabled", [enabled |-> enabled])
    /\ UNCHANGED <<requests, extra_headers, attempted_authentications,
                   offline, provided,
                   awaiting>>
    /\ UNCHANGED <<knobs, interception, pairing>>
    /\ UNCHANGED outside

authenticate(creds) ==
    /\ CanRun
    /\ credentials' = Some(creds)
    /\ Emit(update_protocol_request_interception(
                user_request_interception_enabled, credentials'))
    /\ last' = Call("authenticate", [credentials |-> creds])
    /\ UNCHANGED <<requests, extra_headers, user_cache_disabled,
                   attempted_authentications, offline, provided, awaiting,
                   user_request_interception_enabled,
                   protocol_request_interception_enabled>>
    /\ UNCHANGED <<knobs, pairing>>
    /\ UNCHANGED outside

\* OfflineUnchanged without the early return.
OfflineUnchangedIgnored(value) == FALSE

\* The early return of set_offline_mode.
OfflineUnchanged(value) == offline = value

set_offline_mode(value) ==
    /\ CanRun
    /\ IF OfflineUnchanged(value)
       THEN /\ UNCHANGED offline
            /\ Emit(<<>>)
       ELSE /\ offline' = value
            /\ Emit(<<EmulateNetworkConditionsParams(offline')>>)
    /\ last' = Call("set_offline_mode", [value |-> value])
    /\ UNCHANGED <<requests, extra_headers, user_cache_disabled,
                   attempted_authentications, provided,
                   awaiting>>
    /\ UNCHANGED <<knobs, interception, pairing>>
    /\ UNCHANGED outside


(***************************************************************************)
(* Fetch.requestPaused                                                     *)
(***************************************************************************)
\* XhrAssetBlocked without the block_css branch.
XhrAssetBlockedMediaOnly(request_url, block_css, block_media) ==
    LET found == RfindDot(request_url)
    IN  /\ IsSome(found)
        /\ Len(request_url) - Unwrap(found) >= 3
        /\ block_media
        /\ IgnoreXhrAssetsContains(
               SubSeq(request_url, Unwrap(found) + 2, Len(request_url)))

\* The extension test of skip_xhr: the text after the last '.', when the
\* '.' is followed by at least two bytes.
XhrAssetBlocked(request_url, block_css, block_media) ==
    LET found == RfindDot(request_url)
    IN  IF IsSome(found)
        THEN LET position == Unwrap(found)
                 hlen == Len(request_url)
                 has_asset == hlen - position
                 next_position == position + 1
                 ext == SubSeq(request_url, next_position + 1, hlen)
             IN  IF has_asset >= 3
                 THEN IF block_media /\ IgnoreXhrAssetsContains(ext) THEN TRUE
                      ELSE IF block_css THEN StrContains(ext, CSS_EXTENSION)
                      ELSE FALSE
                 ELSE FALSE
        ELSE FALSE

skip_xhr(skip_networking, event) ==
    IF ~skip_networking /\ event.resource_type = "Xhr"
    THEN LET request_url == event.url
             skip_analytics == block_analytics /\ ignore_script_xhr(request_url)
         IN  IF skip_analytics THEN TRUE
             ELSE IF block_stylesheets \/ ignore_visuals
             THEN LET block_css == block_stylesheets
                      block_media == ignore_visuals /\ only_html
                      block_request ==
                          XhrAssetBlocked(request_url, block_css, block_media)
                  IN  IF ~block_request
                      THEN ignore_script_xhr_media(request_url)
                      ELSE block_request
             ELSE skip_networking
    ELSE skip_networking

\* SkipMain without the test of IGNORE_NETWORKING_RESOURCE_MAP.
SkipMainKnobsOnly(event) ==
    \/ ignore_visuals /\ event.resource_type \in IGNORE_VISUAL_RESOURCE_MAP
    \/ block_stylesheets /\ event.resource_type = "Stylesheet"
    \/ /\ block_javascript
       /\ event.resource_type = "Script"
       /\ ~JsFrameworkAllowed(event.url)

\* The main initial check of on_fetch_request_paused.
SkipMain(event) ==
    \/ event.resource_type \in IGNORE_NETWORKING_RESOURCE_MAP
    \/ ignore_visuals /\ event.resource_type \in IGNORE_VISUAL_RESOURCE_MAP
    \/ block_stylesheets /\ event.resource_type = "Stylesheet"
    \/ /\ block_javascript
       /\ event.resource_type = "Script"
       /\ ~JsFrameworkAllowed(event.url)

\* SkipEmbedded without the test of only_html and ignore_visuals.
SkipEmbeddedUnguarded(skip_networking, event) ==
    IF ~skip_networking /\ event.resource_type \in {"Script", "Document"}
    THEN ignore_script_embedded(event.url)
    ELSE skip_networking

\* The embedded-script check that follows it.
SkipEmbedded(skip_networking, event) ==
    IF /\ ~skip_networking
       /\ (only_html \/ ignore_visuals)
       /\ event.resource_type \in {"Script", "Document"}
    THEN ignore_script_embedded(event.url)
    ELSE skip_networking

\* SkipAnalytics without the analytics check.
SkipAnalyticsDropped(skip_networking, event) == skip_networking

\* The analytics check.
SkipAnalytics(skip_networking, event) ==
    IF ~skip_networking /\ event.resource_type = "Script" /\ block_analytics
    THEN ignore_script(event.url)
    ELSE skip_networking

\* The value of skip_networking when the handler answers the request.
SkipNetworking(event) ==
    skip_xhr(SkipAnalytics(SkipEmbedded(SkipMain(event), event), event), event)

\* handle_request_redirect without the call of set_response.
RedirectResponseDropped(request, response) == request

\* handle_request_redirect: the request with the redirect response set.
handle_request_redirect(request, response) == set_response(request, response)

\* on_request that keeps a record already in the requests map.
OnRequestKeepsRecord(event, interception_id) ==
    [requests |->
         IF event.request_id \in DOMAIN requests THEN requests
         ELSE MapInsert(requests, event.request_id,
                        HttpRequestNew(event.request_id, interception_id,
                                       <<>>)),
     attempted_authentications |-> attempted_authentications,
     pushed |-> <<Request(event.request_id)>>]

\* on_request: the requests map, the attempted authentications and the
\* events pushed, for a requestWillBeSent event and an interception id.
on_request(event, interception_id) ==
    LET rid == event.request_id
        redirected ==
            IsSome(event.redirect_response) /\ rid \in DOMAIN requests
        old == handle_request_redirect(requests[rid],
                                       Unwrap(event.redirect_response))
        redirect_chain ==
            IF redirected
            THEN Append(old.redirect_chain, [old EXCEPT !.redirect_chain = <<>>])
            ELSE <<>>
    IN  [requests |->
             MapInsert(requests, rid,
                       HttpRequestNew(rid, interception_id, redirect_chain)),
         attempted_authentications |->
             IF redirected /\ IsSome(requests[rid].interception_id)
             THEN attempted_authentications
                      \ {Unwrap(requests[rid].interception_id)}
             ELSE attempted_authentications,
         pushed |-> <<Request(rid)>>]

\* The redirect_chain on_request would build stays within MaxChain.
ChainRoom(event) ==
    IF IsSome(event.redirect_response) /\ event.request_id \in DOMAIN requests
    THEN Len(requests[event.request_id].redirect_chain) < MaxChain
    ELSE TRUE

on_fetch_request_paused(event) ==
    /\ CanRun
    /\ last' = Call("on_fetch_request_paused", event)
    /\ awaiting' = IF IsSome(event.network_id)
                   THEN awaiting \ {Unwrap(event.network_id)}
                   ELSE awaiting
    /\ IF /\ ~user_request_interception_enabled
          /\ protocol_request_interception_enabled
       THEN /\ Emit(<<ContinueRequestParams(event.request_id)>>)
            /\ UNCHANGED <<requests, requests_will_be_sent,
                           attempted_authentications>>
       ELSE IF IsSome(event.network_id)
       THEN LET network_id == Unwrap(event.network_id)
            IN  IF network_id \in DOMAIN requests_will_be_sent
                THEN LET request_will_be_sent ==
                             requests_will_be_sent[network_id]
                         r == on_request(request_will_be_sent,
                                         Some(event.request_id))
                     IN  /\ ChainRoom(request_will_be_sent)
                         /\ requests_will_be_sent' =
                                MapRemove(requests_will_be_sent, network_id)
                         /\ requests' = r.requests
                         /\ attempted_authentications' =
                                r.attempted_authentications
                         /\ Emit(r.pushed)
                ELSE /\ IF SkipNetworking(event)
                        THEN Emit(<<FulfillRequestParams(event.request_id,
                                                         200)>>)
                        ELSE Emit(<<ContinueRequestParams(event.request_id)>>)
                     /\ UNCHANGED <<requests, requests_will_be_sent,
                                    attempted_authentications>>
       ELSE /\ Emit(<<ContinueRequestParams(event.request_id)>>)
            /\ UNCHANGED <<requests, requests_will_be_sent,
                           attempted_authentications>>
    /\ UNCHANGED <<extra_headers, user_cache_disabled, offline, provided,
                   request_id_to_interception_id>>
    /\ UNCHANGED <<knobs, interception>>
    /\ UNCHANGED outside

(***************************************************************************)
(* Fetch.authRequired                                                      *)
(***************************************************************************)
\* AuthResponse without the test of attempted_authentications.
AuthResponseForgetful(event) ==
    IF IsSome(credentials) THEN "ProvideCredentials" ELSE "Default"

AuthResponse(event) ==
    IF event.request_id \in attempted_authentications THEN "CancelAuth"
    ELSE IF IsSome(credentials) THEN "ProvideCredentials"
    ELSE "Default"

\* MarkAttempted marking the id whatever the answer.
MarkAttemptedAlways(event, response) ==
    attempted_authentications \cup {event.request_id}

\* attempted_authentications after the answer is chosen: the id is inserted
\* in the ProvideCredentials branch only.
MarkAttempted(event, response) ==
    IF response = "ProvideCredentials"
    THEN attempted_authentications \cup {event.request_id}
    ELSE attempted_authentications

on_fetch_auth_required(event) ==
    LET response == AuthResponse(event)
    IN  /\ CanRun
        /\ last' = Call("on_fetch_auth_required", event)
        /\ attempted_authentications' = MarkAttempted(event, response)
        /\ provided' =
               IF response = "ProvideCredentials"
               THEN provided \cup {event.request_id}
               ELSE provided
        /\ Emit(<<ContinueWithAuthParams(
                      event.request_id,
                      AuthChallengeResponse(response, credentials))>>)
        /\ UNCHANGED <<requests, extra_headers, user_cache_disabled, offline,
                       awaiting>>
        /\ UNCHANGED <<knobs, interception, pairing>>
        /\ UNCHANGED outside

(***************************************************************************)
(* Network.requestWillBeSent and the events that follow it.                *)
(***************************************************************************)
\* Intercepted with the effective need in place of the protocol flag.
InterceptedWhenNeeded(event) ==
    /\ user_request_interception_enabled \/ IsSome(credentials)
    /\ ~StartsWith(event.url, "data:")

\* Intercepted with the test inverted.
InterceptedInverted(event) ==
    ~(/\ protocol_request_interception_enabled
      /\ ~StartsWith(event.url, "data:"))

\* The request will be paused by the Fetch domain: interception is on and
\* the URL is no data: URL.
Intercepted(event) ==
    /\ protocol_request_interception_enabled
    /\ ~StartsWith(event.url, "data:")

on_request_will_be_sent(event) ==
    /\ CanRun
    /\ last' = Call("on_request_will_be_sent", event)
    /\ awaiting' =
           IF /\ user_request_interception_enabled \/ IsSome(credentials)
              /\ ~StartsWith(event.url, "data:")
              /\ event.request_id \notin DOMAIN request_id_to_interception_id
           THEN awaiting \cup {event.request_id}
           ELSE awaiting
    /\ IF Intercepted(event)
       THEN IF event.request_id \in DOMAIN request_id_to_interception_id
            THEN LET r == on_request(
                              event,
                              Some(request_id_to_interception_id[
                                       event.request_id]))
                 IN  /\ ChainRoom(event)
                     /\ request_id_to_interception_id' =
                            MapRemove(request_id_to_interception_id,
                                      event.request_id)
                     /\ requests' = r.requests
                     /\ attempted_authentications' =
                            r.attempted_authentications
                     /\ Emit(r.pushed)
                     /\ UNCHANGED requests_will_be_sent
            ELSE /\ requests_will_be_sent' =
                        MapInsert(requests_will_be_sent, event.request_id,
                                  event)
                 /\ Emit(<<>>)
                 /\ UNCHANGED <<requests, attempted_authentications,
                                request_id_to_interception_id>>
       ELSE LET r == on_request(event, None)
            IN  /\ ChainRoom(event)
                /\ requests' = r.requests
                /\ attempted_authentications' = r.attempted_authentications
                /\ Emit(r.pushed)
                /\ UNCHANGED pairing
    /\ UNCHANGED <<extra_headers, user_cache_disabled, offline, provided>>
    /\ UNCHANGED <<knobs, interception>>
    /\ UNCHANGED outside

\* TakeRequest with HashMap::get in place of HashMap::remove.
TakeRequestKept(request_id) == requests

\* HashMap::remove on requests: the map that is left.
TakeRequest(request_id) == MapRemove(requests, request_id)

\* MarkFromMemoryCache setting the flag of every record.
MarkFromMemoryCacheAll(request_id) ==
    [r \in DOMAIN requests |->
         [requests[r] EXCEPT !.from_memory_cache = TRUE]]

\* requests after `if let Some(request) = requests.get_mut(request_id)`
\* sets request.from_memory_cache.
MarkFromMemoryCache(request_id) ==
    IF request_id \in DOMAIN requests
    THEN [requests EXCEPT ![request_id].from_memory_cache = TRUE]
    ELSE requests

on_request_served_from_cache(event) ==
    /\ CanRun
    /\ last' = Call("on_request_served_from_cache", event)
    /\ requests' = MarkFromMemoryCache(event.request_id)
    /\ Emit(<<>>)
    /\ UNCHANGED <<extra_headers, user_cache_disabled,
                   attempted_authentications, offline, provided,
                   awaiting>>
    /\ UNCHANGED <<knobs, interception, pairing>>
    /\ UNCHANGED outside

on_response_received(event) ==
    /\ CanRun
    /\ last' = Call("on_response_received", event)
    /\ IF event.request_id \in DOMAIN requests
       THEN /\ requests' = TakeRequest(event.request_id)
            /\ Emit(<<RequestFinished(
                          set_response(requests[event.request_id],
                                       event.response))>>)
       ELSE /\ UNCHANGED requests
            /\ Emit(<<>>)
    /\ UNCHANGED <<extra_headers, user_cache_disabled,
                   attempted_authentications, offline, provided,
                   awaiting>>
    /\ UNCHANGED <<knobs, interception, pairing>>
    /\ UNCHANGED outside

\* HashSet::remove of the request's interception id, if it has one.
RemoveAttempted(request) ==
    IF IsSome(request.interception_id)
    THEN attempted_authentications \ {Unwrap(request.interception_id)}
    ELSE attempted_authentications

on_network_loading_finished(event) ==
    /\ CanRun
    /\ last' = Call("on_network_loading_finished", event)
    /\ IF event.request_id \in DOMAIN requests
       THEN LET request == requests[event.request_id]
            IN  /\ requests' = TakeRequest(event.request_id)
                /\ attempted_authentications' = RemoveAttempted(request)
                /\ Emit(<<RequestFinished(request)>>)
       ELSE /\ UNCHANGED <<requests, attempted_authentications>>
            /\ Emit(<<>>)
    /\ UNCHANGED <<extra_headers, user_cache_disabled, offline, provided,
                   awaiting>>
    /\ UNCHANGED <<knobs, interception, pairing>>
    /\ UNCHANGED outside

\* SetFailureText without the assignment.
FailureTextDropped(request, error_text) == request

\* request.failure_text = Some(error_text)
SetFailureText(request, error_text) ==
    [request EXCEPT !.failure_text = Some(error_text)]

on_network_loading_failed(event) ==
    /\ CanRun
    /\ last' = Call("on_network_loading_failed", event)
    /\ IF event.request_id \in DOMAIN requests
       THEN LET request == SetFailureText(requests[event.request_id],
                                          event.error_text)
            IN  /\ requests' = TakeRequest(event.request_id)
                /\ attempted_authentications' = RemoveAttempted(request)
                /\ Emit(<<RequestFailed(request)>>)
       ELSE /\ UNCHANGED <<requests, attempted_authentications>>
            /\ Emit(<<>>)
    /\ UNCHANGED <<extra_headers, user_cache_disabled, offline, provided,
                   awaiting>>
    /\ UNCHANGED <<knobs, interception, pairing>>
    /\ UNCHANGED outside

(***************************************************************************)
(* The events the browser sends and the calls the handler makes.           *)
(***************************************************************************)
OptionOf(S) == {None} \cup {Some(x) : x \in S}

RequestPausedEvents(types, urls) ==
    [request_id : InterceptionIds, network_id : OptionOf(RequestIds),
     resource_type : types, url : urls]
AuthRequiredEvents == [request_id : InterceptionIds]
\* The requests of the manager's runs: r1 is the one that gets redirected.
RequestWillBeSentEvents ==
    {event \in [request_id : RequestIds, url : WillBeSentUrls,
                redirect_response : OptionOf(RedirectResponses)] :
         IsSome(event.redirect_response) =>
             event.request_id = "r1" /\ event.url = "https://a.test/page"}
RequestServedFromCacheEvents == [request_id : RequestIds]
ResponseReceivedEvents == [request_id : RequestIds, response : Responses]
LoadingFinishedEvents == [request_id : RequestIds]
LoadingFailedEvents == [request_id : RequestIds, error_text : ErrorTexts]

\* The paused requests of the manager's runs: a tracker script and a page.
ManagerPausedTypes == {"Script", "Document"}
ManagerPausedUrls ==
    {"https://www.google-analytics.com/ga.js", "https://a.test/page"}

\* set_request_interception and authenticate
InterceptionCalls ==
    \/ \E enabled \in BOOLEAN : set_request_interception(enabled)
    \/ \E creds \in CredentialsSet : authenticate(creds)

\* The other configuration calls.
ConfigurationCalls ==
    \/ \E headers \in HeaderMaps : set_extra_headers(headers)
    \/ \E enabled \in BOOLEAN : set_cache_enabled(enabled)
    \/ \E value \in BOOLEAN : set_offline_mode(value)

\* The CDP events of the request lifecycle.
NetworkEvents ==
    \/ \E event \in RequestPausedEvents(ManagerPausedTypes, ManagerPausedUrls) :
           on_fetch_request_paused(event)
    \/ \E event \in AuthRequiredEvents : on_fetch_auth_required(event)
    \/ \E event \in RequestWillBeSentEvents : on_request_will_be_sent(event)
    \/ \E event \in RequestServedFromCacheEvents :
           on_request_served_from_cache(event)
    \/ \E event \in ResponseReceivedEvents : on_response_received(event)
    \/ \E event \in LoadingFinishedEvents : on_network_loading_finished(event)
    \/ \E event \in LoadingFailedEvents : on_network_loading_failed(event)

(***************************************************************************)
(* Spec: every call and event, interleaved freely with poll, traced.       *)
(***************************************************************************)
InitTraced == New /\ NoHistory /\ tracing = TRUE /\ NoCrawl /\ NoCall

Next == poll \/ InterceptionCalls \/ ConfigurationCalls \/ NetworkEvents

Spec == InitTraced /\ [][Next]_vars

(***************************************************************************)
(* SpecConfig: the configuration calls, in runs of any length.             *)
(***************************************************************************)
NextConfig == poll \/ InterceptionCalls \/ ConfigurationCalls

SpecConfig == Init /\ [][NextConfig]_vars

(***************************************************************************)
(* SpecNetwork: the CDP events and the interception calls, in runs of any  *)
(* length.                                                                 *)
(***************************************************************************)
NextNetwork == poll \/ InterceptionCalls \/ NetworkEvents

SpecNetwork == Init /\ [][NextNetwork]_vars

(***************************************************************************)
(* SpecPaused: requestPaused events of every resource type and URL, on a   *)
(* manager whose public blocking fields the handler has set to any values. *)
(***************************************************************************)
InitPaused ==
    /\ queued_events = <<>>
    /\ requests = EmptyMap
    /\ requests_will_be_sent = EmptyMap
    /\ extra_headers = EmptyMap
    /\ request_id_to_interception_id = EmptyMap
    /\ user_cache_disabled = FALSE
    /\ attempted_authentications = {}
    /\ credentials = None
    /\ user_request_interception_enabled = FALSE
    /\ protocol_request_interception_enabled = FALSE
    /\ offline = FALSE
    /\ ignore_visuals \in BOOLEAN
    /\ block_javascript \in BOOLEAN
    /\ block_stylesheets \in BOOLEAN
    /\ block_analytics \in BOOLEAN
    /\ only_html \in BOOLEAN
    /\ NoHistory
    /\ tracing = FALSE
    /\ NoCrawl
    /\ NoCall

NextPaused ==
    \/ poll
    \/ InterceptionCalls
    \/ \E event \in RequestPausedEvents(ResourceTypes, PausedUrls) :
           on_fetch_request_paused(event)

SpecPaused == InitPaused /\ [][NextPaused]_vars


(***************************************************************************)
(* The frontier (specification 4.B): URL keys, the scope rule, add, pop.   *)
(***************************************************************************)
\* limit is drawn from 0..MaxLimit; depth is 0 or MaxDepth, and a URL is
\* added at depth MaxDepth or MaxDepth + 1.
MaxLimit == 3
MaxDepth == 2

\* The seed of the crawl and the URLs handed to add.
SeedUrl == "https://example.test/"
RawUrls ==
    {"https://example.test/",
     "https://example.test/a",
     "https://Example.TEST/a#top",
     "https://example.test/A",
     "https://example.test/b",
     "https://other.test/"}

\* The fields of the NetworkManager and their history, last excepted.
manager ==
    <<queued_events, requests, requests_will_be_sent, extra_headers,
      request_id_to_interception_id, user_cache_disabled,
      attempted_authentications, credentials,
      user_request_interception_enabled,
      protocol_request_interception_enabled, offline, ignore_visuals,
      block_stylesheets, block_javascript, block_analytics, only_html,
      provided, awaiting, tracing, enqueued, dequeued, lifecycle>>

\* The position of the first occurrence of p in s at or after from, 0 if
\* there is none.
FindFrom(s, p, from) ==
    LET hits == {k \in from..Len(s) :
                     k + Len(p) - 1 <= Len(s)
                         /\ SubSeq(s, k, k + Len(p) - 1) = p}
    IN  IF hits = {} THEN 0 ELSE CHOOSE k \in hits : \A j \in hits : k <= j

\* The URL without its fragment.
StripFragment(url) ==
    LET hash == FindFrom(url, "#", 1)
    IN  IF hash = 0 THEN url ELSE SubSeq(url, 1, hash - 1)

\* The length of the scheme and host of an absolute URL: up to the first
\* '/' after "://", the whole URL if there is none.
AuthorityEnd(url) ==
    LET sep == FindFrom(url, "://", 1)
        slash == IF sep = 0 THEN 0 ELSE FindFrom(url, "/", sep + 3)
    IN  IF slash = 0 THEN Len(url) ELSE slash - 1

\* The URL key: fragment stripped, scheme and host in lower case, path and
\* query as they are.
canonicalize(url) ==
    LET stripped == StripFragment(url)
        authority == AuthorityEnd(stripped)
    IN  ToLower(SubSeq(stripped, 1, authority))
            \o SubSeq(stripped, authority + 1, Len(stripped))

\* The scheme and host of a URL key.
Authority(key) == SubSeq(key, 1, AuthorityEnd(key))

\* The scope rule with subdomains, tld, and the lists left at their
\* defaults: the host is the seed's.
InScope(key) == Authority(key) = Authority(canonicalize(SeedUrl))

\* canonicalize and the scope rule, evaluated once for the URLs of the
\* model.
KeyOf == [url \in RawUrls |-> canonicalize(url)]
Scoped == {key \in {KeyOf[url] : url \in RawUrls} : InScope(key)}

\* A frontier: its two fields, and the keys appended so far.
FrontierOf(v, p, a) == [visited |-> v, pending |-> p, appended |-> a]

\* The keys of a pending sequence.
PendingKeys(f) == {f.pending[i].url : i \in 1..Len(f.pending)}

\* AlreadyVisited on pending alone: a dedup that forgets popped keys.
AlreadyPending(f, key) == key \in PendingKeys(f)

\* The key was discovered before.
AlreadyVisited(f, key) == key \in f.visited

\* LimitReached with the comparison off by one.
LimitExceeded(f) == limit > 0 /\ Cardinality(f.visited) > limit

\* pending and visited together hold limit keys (0: unbounded).
LimitReached(f) ==
    limit > 0 /\ Cardinality(f.visited \cup PendingKeys(f)) >= limit

\* The link is deeper than depth allows (0: unbounded).
DepthExceeded(at_depth) == depth > 0 /\ at_depth > depth

\* add(url, depth) on the frontier f: the frontier that results.
FrontierAdd(f, url, at_depth) ==
    LET key == KeyOf[url]
    IN  IF \/ key \notin Scoped
           \/ AlreadyVisited(f, key)
           \/ LimitReached(f)
           \/ DepthExceeded(at_depth)
        THEN f
        ELSE FrontierOf(f.visited \cup {key},
                        Append(f.pending, [url |-> key, depth |-> at_depth]),
                        Append(f.appended, key))

\* The frontier of the state.
Frontier == FrontierOf(visited, pending, appended)

\* The state takes the frontier f.
SetFrontier(f) ==
    /\ visited' = f.visited
    /\ pending' = f.pending
    /\ appended' = f.appended

add(url, at_depth) ==
    /\ SetFrontier(FrontierAdd(Frontier, url, at_depth))
    /\ last' = Call("add", [url |-> url, depth |-> at_depth])
    /\ UNCHANGED <<limit, depth, in_flight, pages, popped>>
    /\ UNCHANGED <<manager, call_state>>

\* pop: the head of pending, nothing when pending is empty.
pop ==
    /\ IF pending = <<>>
       THEN UNCHANGED <<pending, popped>>
       ELSE /\ pending' = Tail(pending)
            /\ popped' = Append(popped, Head(pending).url)
    /\ last' = Call("pop", NoArgs)
    /\ UNCHANGED <<visited, limit, depth, in_flight, pages, appended>>
    /\ UNCHANGED <<manager, call_state>>

\* A frontier after construction, under any configuration.
InitFrontier ==
    /\ New /\ NoHistory /\ tracing = FALSE
    /\ visited = {}
    /\ pending = <<>>
    /\ limit \in 0..MaxLimit
    /\ depth \in {0, MaxDepth}
    /\ in_flight = {}
    /\ pages = <<>>
    /\ appended = <<>>
    /\ popped = <<>>
    /\ NoCall

(***************************************************************************)
(* SpecFrontier: any sequence of add and pop.                              *)
(***************************************************************************)
NextFrontier ==
    \/ \E url \in RawUrls, at_depth \in {MaxDepth, MaxDepth + 1} :
           add(url, at_depth)
    \/ pop

SpecFrontier == InitFrontier /\ [][NextFrontier]_vars


(***************************************************************************)
(* The crawl (specification 4.E, 4.F, 4.I): the orchestrator pops URLs     *)
(* from the frontier for the workers of the pool; a completed fetch        *)
(* publishes its Page and feeds the links of the page to the frontier.     *)
(***************************************************************************)
\* The pool runs at most Workers fetches at a time.
Workers == 2

\* The site that is crawled: the links of each page, two per page.
SiteLinks ==
    [key \in Scoped |->
        CASE key = "https://example.test/" ->
                 <<"https://example.test/a", "https://example.test/b">>
          [] key = "https://example.test/a" ->
                 <<"https://Example.TEST/a#top", "https://example.test/A">>
          [] key = "https://example.test/b" ->
                 <<"https://example.test/", "https://other.test/">>
          [] OTHER ->
                 <<"https://example.test/b", "https://example.test/a">>]

\* The links are fed to add in order, each at the depth given.
RECURSIVE AddLinks(_, _, _)
AddLinks(f, links, at_depth) ==
    IF links = <<>> THEN f
    ELSE AddLinks(FrontierAdd(f, Head(links), at_depth), Tail(links),
                  at_depth)

\* Website::crawl seeds the frontier.
crawl ==
    /\ appended = <<>>
    /\ SetFrontier(FrontierAdd(Frontier, SeedUrl, 0))
    /\ last' = Call("crawl", NoArgs)
    /\ UNCHANGED <<limit, depth, in_flight, pages, popped>>
    /\ UNCHANGED <<manager, call_state>>

\* The orchestrator pops the next URL for a free worker.
dispatch ==
    /\ pending # <<>>
    /\ Cardinality(in_flight) < Workers
    /\ pending' = Tail(pending)
    /\ popped' = Append(popped, Head(pending).url)
    /\ in_flight' = in_flight \cup {Head(pending)}
    /\ last' = Call("dispatch", NoArgs)
    /\ UNCHANGED <<visited, limit, depth, pages, appended>>
    /\ UNCHANGED <<manager, call_state>>

\* A fetch completes: its Page is published, and the links of the page are
\* added one level deeper.  A fetch that failed for good publishes a Page
\* without links.
complete(item, failed) ==
    /\ item \in in_flight
    /\ in_flight' = in_flight \ {item}
    /\ pages' = Append(pages, [url |-> item.url, failed |-> failed])
    /\ SetFrontier(AddLinks(Frontier,
                            IF failed THEN <<>> ELSE SiteLinks[item.url],
                            item.depth + 1))
    /\ last' = Call("complete", [url |-> item.url, failed |-> failed])
    /\ UNCHANGED <<limit, depth, popped>>
    /\ UNCHANGED <<manager, call_state>>

(***************************************************************************)
(* SpecCrawl: a crawl of the site under any configuration.                 *)
(***************************************************************************)
NextCrawl ==
    \/ crawl
    \/ dispatch
    \/ \E item \in in_flight, failed \in BOOLEAN : complete(item, failed)

SpecCrawl == InitFrontier /\ [][NextCrawl]_vars


(***************************************************************************)
(* SpecRedirect: one request that is redirected by either of two redirect  *)
(* responses, served from cache and answered, in runs of any length.       *)
(***************************************************************************)
RedirectHops == {"moved", "found"}

RedirectHopEvents ==
    [request_id : {"r1"}, url : {"https://a.test/page"},
     redirect_response : OptionOf(RedirectHops)]

NextRedirect ==
    \/ poll
    \/ \E event \in RedirectHopEvents : on_request_will_be_sent(event)
    \/ on_request_served_from_cache([request_id |-> "r1"])
    \/ \E response \in Responses :
           on_response_received([request_id |-> "r1", response |-> response])

SpecRedirect == Init /\ [][NextRedirect]_vars


(***************************************************************************)
(* A caller of the Trie: it inserts words into a Trie of its own and asks  *)
(* contains_prefix of texts.  Words and texts mix the empty string, two    *)
(* cases of a letter, words that extend one another and texts shorter and  *)
(* longer than the words.                                                  *)
(***************************************************************************)
TrieWords == {"", "a", "ab", "aB", "abc", "B"}
TrieTexts == {"", "a", "A", "ab", "aB", "abcd", "b", "Ba", "ba"}

\* Trie::insert(word) on the caller's Trie.
insert(word) ==
    /\ last' = Call("insert", [word |-> word])
    /\ root' = TrieInsert(root, word)
    /\ words' = words \cup {word}
    /\ returned' = None
    /\ UNCHANGED <<manager, crawl_state>>

\* Trie::contains_prefix(text) on the caller's Trie.
query(text) ==
    /\ last' = Call("contains_prefix", [text |-> text])
    /\ returned' = Some(contains_prefix(root, text))
    /\ UNCHANGED <<root, words>>
    /\ UNCHANGED <<manager, crawl_state>>

NextTrie ==
    \/ \E word \in TrieWords : insert(word)
    \/ \E text \in TrieTexts : query(text)

SpecTrie == Init /\ [][NextTrie]_vars


(***************************************************************************)
(* A caller of ignore_script.  The URLs are a host part, a path and a file *)
(* name: hosts that start with a pattern of the tracker table, that stop   *)
(* short of one, that hold one further on or in another case, and file     *)
(* names that are one of the four endings, that carry one followed by a    *)
(* query or in upper case, or none.                                        *)
(***************************************************************************)
ScriptHosts ==
    {"https://www.google-analytics.com",
     "https://www.google-analytics.",
     "https://a.test/?u=https://www.google-analytics.com",
     "https://a.test",
     "hotjar.com",
     "https://hotjar.com",
     "http://ads.a.test",
     "HTTP://ADS.a.test"}
ScriptPaths == {"/", "/js/", "/analytics.js/"}
ScriptFiles ==
    {"", "analytics.js", "ads.js", "tracking.js", "track.js", "track.js?x",
     "TRACK.JS", "app.js"}
ScriptUrls ==
    {host \o path \o file :
         host \in ScriptHosts, path \in ScriptPaths, file \in ScriptFiles}

\* ignore_script(url) called.
call_ignore_script(url) ==
    /\ last' = Call("ignore_script", [url |-> url])
    /\ returned' = Some(ignore_script(url))
    /\ UNCHANGED <<root, words>>
    /\ UNCHANGED <<manager, crawl_state>>

NextScript == \E url \in ScriptUrls : call_ignore_script(url)

SpecScript == Init /\ [][NextScript]_vars


(***************************************************************************)
(* spider_utils: the selectors.  A CSS selector is a type selector (an     *)
(* identifier) or a class selector ('.' and an identifier); an XPath is a  *)
(* name test (an identifier), '//' and a name test, or                     *)
(* //*[@class='name'].  Every other string, the empty string included,     *)
(* is neither.                                                             *)
(***************************************************************************)
MaxSelectors == 3

IdentChars ==
    {"a", "b", "c", "d", "e", "f", "g", "h", "i", "j", "k", "l", "m", "n",
     "o", "p", "q", "r", "s", "t", "u", "v", "w", "x", "y", "z", "-"}
IsIdent(s) ==
    /\ Len(s) >= 1
    /\ \A i \in 1..Len(s) : SubSeq(s, i, i) \in IdentChars

\* Selector::parse: Some(selector) for Ok(selector), None for Err.
Selector_parse(s) ==
    IF IsIdent(s) THEN Some([kind |-> "type", name |-> s])
    ELSE IF StartsWith(s, ".") /\ IsIdent(SubSeq(s, 2, Len(s)))
    THEN Some([kind |-> "class", name |-> SubSeq(s, 2, Len(s))])
    ELSE None

\* XPATH_FACTORY.build: Some(xpath) for Ok(Some(xpath)), None for Ok(None)
\* (the empty expression) and for Err.
XPATH_FACTORY_build(expression) ==
    LET n == Len(expression)
    IN  IF IsIdent(expression)
        THEN Some([axis |-> "child", test |-> "name", name |-> expression])
        ELSE IF StartsWith(expression, "//") /\ IsIdent(SubSeq(expression, 3, n))
        THEN Some([axis |-> "descendant", test |-> "name",
                   name |-> SubSeq(expression, 3, n)])
        ELSE IF /\ StartsWith(expression, "//*[@class='")
                /\ EndsWith(expression, "']")
                /\ IsIdent(SubSeq(expression, 13, n - 2))
        THEN Some([axis |-> "descendant", test |-> "class",
                   name |-> SubSeq(expression, 13, n - 2)])
        ELSE None

is_valid_xpath(expression) == IsSome(XPATH_FACTORY_build(expression))

SelectorStrings ==
    {".list", "div", "//*[@class='list']", "//li", "<<<", ""}
\* The selector strings of the queries.
QueryStrings == {".list", ".sub-list", "div", "//li"}
SelectorKeys == {"list", "title"}

\* The selectors of a key, in the order the set's iterator yields them.
SelectorSets ==
    {seq \in UNION {[1..n -> SelectorStrings] : n \in 0..MaxSelectors} :
         \A i, j \in 1..Len(seq) : i # j => seq[i] # seq[j]}
SelectorMaps == UNION {[keys -> SelectorSets] : keys \in SUBSET SelectorKeys}

\* The parse of each selector string, computed once.
ParsedCss ==
    [s \in SelectorStrings \cup QueryStrings |-> Selector_parse(s)]
ValidXpath ==
    [s \in SelectorStrings \cup QueryStrings |-> is_valid_xpath(s)]

\* selectors_vec_xpath with every valid XPath pushed, whether or not the
\* string parsed as CSS.
SelectorsVecXpathAll(selector_set) ==
    LET valid(s) == ValidXpath[s]
    IN  SelectSeq(selector_set, valid)

\* selectors_vec after the loop over a key's selectors: the parsed CSS
\* selectors, in iteration order.
SelectorsVec(selector_set) ==
    LET ok(s) == IsSome(ParsedCss[s])
        kept == SelectSeq(selector_set, ok)
    IN  [i \in 1..Len(kept) |-> Unwrap(ParsedCss[kept[i]])]

\* selectors_vec_xpath after the loop: the strings that failed to parse as
\* CSS and are valid XPaths, in iteration order.
SelectorsVecXpath(selector_set) ==
    LET routed(s) == ~IsSome(ParsedCss[s]) /\ ValidXpath[s]
    IN  SelectSeq(selector_set, routed)

\* build_selectors_base: a key is inserted into css when its selectors_vec
\* is not empty and into xpath when its selectors_vec_xpath is not empty.
build_selectors_base(selectors) ==
    LET has_css_selectors(key) == SelectorsVec(selectors[key]) # <<>>
        has_xpath_selectors(key) == SelectorsVecXpath(selectors[key]) # <<>>
    IN  [css |->
             [key \in {k \in DOMAIN selectors : has_css_selectors(k)} |->
                  SelectorsVec(selectors[key])],
         xpath |->
             [key \in {k \in DOMAIN selectors : has_xpath_selectors(k)} |->
                  SelectorsVecXpath(selectors[key])]]

build_selectors(selectors) == build_selectors_base(selectors)

\* build_selectors(selectors) called.
call_build_selectors(selectors) ==
    /\ last' = Call("build_selectors", [selectors |-> selectors])
    /\ returned' = Some(build_selectors(selectors))
    /\ UNCHANGED <<root, words>>
    /\ UNCHANGED <<manager, crawl_state>>

\* One call, from the initial state.
NextSelectors ==
    /\ last.op = "new"
    /\ \E selectors \in SelectorMaps : call_build_selectors(selectors)

SpecSelectors == Init /\ [][NextSelectors]_vars


(***************************************************************************)
(* spider_utils: the queries.  A document is what Html::parse_document     *)
(* makes of the html: its elements in document order, each with its name,  *)
(* its class, the attributes process_selector reads and the text nodes     *)
(* below it; xml tells whether sxd_document's parser accepts the html.     *)
(***************************************************************************)
Element(name, class, texts) ==
    [name |-> name, class |-> class, texts |-> texts,
     content |-> None, href |-> None, src |-> None, alt |-> None]

\* <ul class="list"><li>Test</li></ul>
ListDocument ==
    [xml |-> TRUE,
     elements |-> <<Element("ul", "list", <<"Test">>),
                    Element("li", "", <<"Test">>)>>]
\* <ul class="list"><li>First</li></ul><ul class="sub-list"><li>Second</li></ul>
MultiJoinDocument ==
    [xml |-> TRUE,
     elements |-> <<Element("ul", "list", <<"First">>),
                    Element("li", "", <<"First">>),
                    Element("ul", "sub-list", <<"Second">>),
                    Element("li", "", <<"Second">>)>>]
\* <div><p>Same</p><p>text</p></div><div>Same text</div><div>Same text</div>
RepeatedDocument ==
    [xml |-> TRUE,
     elements |-> <<Element("div", "", <<"Same", "text">>),
                    Element("p", "", <<"Same">>),
                    Element("p", "", <<"text">>),
                    Element("div", "", <<"Same text">>),
                    Element("div", "", <<"Same text">>)>>]
\* <ul class="list"></ul><div class="sub-list"><br></div>
EmptyDocument ==
    [xml |-> FALSE,
     elements |-> <<Element("ul", "list", <<>>),
                    Element("div", "sub-list", <<>>),
                    Element("br", "", <<>>)>>]
\* <meta class="list" content="About"><link class="list" href="/s.css">
\* <script class="list">run()</script><script class="sub-list" src=""></script>
\* <img class="list" src=" a.png " alt="A"><img class="sub-list" alt="B">
AttributeDocument ==
    [xml |-> FALSE,
     elements |->
         <<[Element("meta", "list", <<>>) EXCEPT !.content = Some("About")],
           [Element("link", "list", <<>>) EXCEPT !.href = Some("/s.css")],
           Element("script", "list", <<"run()">>),
           [Element("script", "sub-list", <<>>) EXCEPT !.src = Some("")],
           [Element("img", "list", <<>>) EXCEPT !.src = Some(" a.png "),
                                                !.alt = Some("A")],
           [Element("img", "sub-list", <<>>) EXCEPT !.alt = Some("B")]>>]
\* <p>Other</p>
OtherDocument ==
    [xml |-> TRUE, elements |-> <<Element("p", "", <<"Other">>)>>]

Documents ==
    {ListDocument, MultiJoinDocument, RepeatedDocument, EmptyDocument,
     AttributeDocument, OtherDocument}

QuerySets ==
    {seq \in UNION {[1..n -> QueryStrings] : n \in 0..MaxSelectors} :
         \A i, j \in 1..Len(seq) : i # j => seq[i] # seq[j]}
QueryMaps == UNION {[keys -> QuerySets] : keys \in SUBSET SelectorKeys}

\* str::trim
RECURSIVE TrimStart(_)
TrimStart(s) ==
    IF Len(s) > 0 /\ SubSeq(s, 1, 1) = " "
    THEN TrimStart(SubSeq(s, 2, Len(s)))
    ELSE s
RECURSIVE TrimEnd(_)
TrimEnd(s) ==
    IF Len(s) > 0 /\ SubSeq(s, Len(s), Len(s)) = " "
    THEN TrimEnd(SubSeq(s, 1, Len(s) - 1))
    ELSE s
Trim(s) == TrimEnd(TrimStart(s))

\* [&str]::join
RECURSIVE Join(_, _)
Join(strings, separator) ==
    IF strings = <<>> THEN ""
    ELSE IF Len(strings) = 1 THEN strings[1]
    ELSE strings[1] \o separator \o Join(Tail(strings), separator)

\* Vec::dedup: consecutive equal items collapse into the first.
RECURSIVE dedup(_)
dedup(items) ==
    IF Len(items) <= 1 THEN items
    ELSE IF items[1] = items[2] THEN dedup(Tail(items))
    ELSE <<items[1]>> \o dedup(Tail(items))

clean_element_text(element) == Join(element.texts, " ")

\* The text process_selector extracts from an element.
ElementText(element) ==
    LET element_name == element.name
    IN  IF element_name = "meta"
        THEN IF IsSome(element.content) THEN Unwrap(element.content) ELSE ""
        ELSE IF element_name \in {"link", "script", "styles"}
        THEN LET attr == IF element_name = "link" THEN element.href
                         ELSE element.src
             IN  IF IsSome(attr) THEN Unwrap(attr)
                 ELSE clean_element_text(element)
        ELSE IF element_name \in {"img", "source"}
        THEN LET from_src ==
                     IF IsSome(element.src) /\ Unwrap(element.src) # ""
                     THEN "[" \o Trim(Unwrap(element.src)) \o "]"
                     ELSE ""
             IN  IF IsSome(element.alt) /\ Unwrap(element.alt) # ""
                 THEN IF from_src = "" THEN Unwrap(element.alt)
                      ELSE from_src \o "(\"" \o Unwrap(element.alt) \o "\")"
                 ELSE from_src
        ELSE clean_element_text(element)

\* process_selector: what the call pushes on the list of its key.
process_selector(element) ==
    LET text == ElementText(element)
    IN  IF text # "" THEN <<text>> ELSE <<>>

\* Html::select: the elements a selector matches, in document order.
Select(html, selector) ==
    LET matches(element) ==
            IF selector.kind = "type" THEN element.name = selector.name
            ELSE element.class = selector.name
    IN  SelectSeq(html.elements, matches)

\* The loop over the elements a selector matches.
RECURSIVE ProcessAll(_)
ProcessAll(elements) ==
    IF elements = <<>> THEN <<>>
    ELSE process_selector(Head(elements)) \o ProcessAll(Tail(elements))

\* The loop over the CSS selectors of a key that stops after the first.
CssValuesOfFirst(html, selector_list) ==
    IF selector_list = <<>> THEN <<>>
    ELSE ProcessAll(Select(html, Head(selector_list)))

\* The loop over the CSS selectors of a key.
RECURSIVE CssValues(_, _)
CssValues(html, selector_list) ==
    IF selector_list = <<>> THEN <<>>
    ELSE ProcessAll(Select(html, Head(selector_list)))
             \o CssValues(html, Tail(selector_list))

\* evaluate_xpath(..).into_string(): the string value of the first node of
\* the node set, the empty string for an empty node set.
evaluate_xpath(html, expression) ==
    LET xpath == Unwrap(XPATH_FACTORY_build(expression))
        matches(element) ==
            IF xpath.test = "name" THEN element.name = xpath.name
            ELSE element.class = xpath.name
        nodes == IF xpath.axis = "child"
                 THEN SelectSeq(SubSeq(html.elements, 1, 1), matches)
                 ELSE SelectSeq(html.elements, matches)
    IN  IF nodes = <<>> THEN "" ELSE Join(nodes[1].texts, "")

\* The loop over the XPath selectors of a key.
RECURSIVE XpathValues(_, _)
XpathValues(html, selector_list) ==
    IF selector_list = <<>> THEN <<>>
    ELSE LET text == evaluate_xpath(html, Head(selector_list))
         IN  (IF text # "" THEN <<text>> ELSE <<>>)
                 \o XpathValues(html, Tail(selector_list))

\* The list the two loops build for a key: the CSS texts, then the XPath
\* texts when the html parses as XML.
QueryValues(html, selectors, key) ==
    (IF key \in DOMAIN selectors.css
     THEN CssValues(html, selectors.css[key]) ELSE <<>>)
    \o (IF key \in DOMAIN selectors.xpath /\ html.xml
        THEN XpathValues(html, selectors.xpath[key]) ELSE <<>>)

css_query_select_map(html, selectors) ==
    LET keys == DOMAIN selectors.css \cup DOMAIN selectors.xpath
    IN  [key \in {k \in keys : QueryValues(html, selectors, k) # <<>>} |->
             QueryValues(html, selectors, key)]

css_query_select_map_streamed(html, selectors) ==
    LET keys == DOMAIN selectors.css \cup DOMAIN selectors.xpath
    IN  [key \in {k \in keys : QueryValues(html, selectors, k) # <<>>} |->
             dedup(QueryValues(html, selectors, key))]

\* css_query_select_map(html, &build_selectors(map)) called.
call_css_query_select_map(html, map) ==
    /\ last' = Call("css_query_select_map", [html |-> html, map |-> map])
    /\ returned' = Some(css_query_select_map(html, build_selectors(map)))
    /\ UNCHANGED <<root, words>>
    /\ UNCHANGED <<manager, crawl_state>>

\* css_query_select_map_streamed(html, &build_selectors(map)) called.
call_css_query_select_map_streamed(html, map) ==
    /\ last' =
           Call("css_query_select_map_streamed", [html |-> html, map |-> map])
    /\ returned' =
           Some(css_query_select_map_streamed(html, build_selectors(map)))
    /\ UNCHANGED <<root, words>>
    /\ UNCHANGED <<manager, crawl_state>>

\* One call, from the initial state.
NextQuery ==
    /\ last.op = "new"
    /\ \E html \in Documents, map \in QueryMaps :
           \/ call_css_query_select_map(html, map)
           \/ call_css_query_select_map_streamed(html, map)

SpecQuery == Init /\ [][NextQuery]_vars


(***************************************************************************)
(* SpecLifecycle: the events of the request lifecycle, counted.            *)
(***************************************************************************)
InitCounted ==
    /\ New
    /\ last = Call("new", NoArgs)
    /\ provided = {}
    /\ awaiting = {}
    /\ enqueued = <<>>
    /\ dequeued = <<>>
    /\ lifecycle = [NoCount EXCEPT !.counting = TRUE]
    /\ tracing = FALSE
    /\ NoCrawl
    /\ NoCall

NextLifecycle ==
    \/ poll
    \/ \E event \in RequestWillBeSentEvents : on_request_will_be_sent(event)
    \/ \E event \in RequestServedFromCacheEvents :
           on_request_served_from_cache(event)
    \/ \E event \in ResponseReceivedEvents : on_response_received(event)
    \/ \E event \in LoadingFinishedEvents : on_network_loading_finished(event)
    \/ \E event \in LoadingFailedEvents : on_network_loading_failed(event)

SpecLifecycle == InitCounted /\ [][NextLifecycle]_vars


(***************************************************************************)
(* Properties.                                                             *)
(***************************************************************************)
\* The fields of the manager, without the history variables.
fields ==
    <<queued_events, requests, requests_will_be_sent, extra_headers,
      request_id_to_interception_id, user_cache_disabled,
      attempted_authentications, credentials,
      user_request_interception_enabled,
      protocol_request_interception_enabled, offline, ignore_visuals,
      block_stylesheets, block_javascript, block_analytics, only_html>>

\* The fields other than queued_events.
fields_but_queue ==
    <<requests, requests_will_be_sent, extra_headers,
      request_id_to_interception_id, user_cache_disabled,
      attempted_authentications, credentials,
      user_request_interception_enabled,
      protocol_request_interception_enabled, offline, ignore_visuals,
      block_stylesheets, block_javascript, block_analytics, only_html>>

\* The answer of a Fetch.continueWithAuth command.
AuthAnswer(command) == command.params.auth_challenge_response.response

\* The step is a Fetch.authRequired for interception id i.
AuthRequiredStep(i) ==
    last' = Call("on_fetch_auth_required", [request_id |-> i])

\* C1: at most one ProvideCredentials is ever sent for an interception id.
\* Every authRequired for i is answered with one continueWithAuth for i; no
\* ProvideCredentials answers an id that was answered with one before; and
\* with credentials configured the answer is ProvideCredentials the first
\* time and CancelAuth every later time.
C1_OneProvideCredentials ==
    [][\A i \in InterceptionIds :
           AuthRequiredStep(i) =>
               /\ Len(Pushed) = 1
               /\ Pushed[1].kind = "SendCdpRequest"
               /\ Pushed[1].method = "Fetch.continueWithAuth"
               /\ Pushed[1].params.request_id = i
               /\ AuthAnswer(Pushed[1]) = "ProvideCredentials"
                      => i \notin provided
               /\ IsSome(credentials) =>
                      AuthAnswer(Pushed[1]) =
                          IF i \in provided THEN "CancelAuth"
                          ELSE "ProvideCredentials"]_vars

\* A second authRequired for i1, with credentials, was answered CancelAuth.
C1_Witness ==
    /\ last = Call("on_fetch_auth_required", [request_id |-> "i1"])
    /\ IsSome(credentials)
    /\ "i1" \in provided
    /\ Len(queued_events) = 1
    /\ queued_events[1].method = "Fetch.continueWithAuth"
    /\ AuthAnswer(queued_events[1]) = "CancelAuth"

\* The step is a Network.loadingFinished for RequestId r.
LoadingFinishedStep(r) ==
    last' = Call("on_network_loading_finished", [request_id |-> r])

\* The RequestFinished events for r among the events evs.
FinishedFor(evs, r) ==
    {k \in 1..Len(evs) :
         evs[k].kind = "RequestFinished" /\ evs[k].request.request_id = r}

\* C2 as stated: once loadingFinished for r is handled, requests holds no
\* record for r and exactly one RequestFinished was emitted for r.
C2_AsStated ==
    [][\A r \in RequestIds :
           LoadingFinishedStep(r) =>
               /\ r \notin DOMAIN requests'
               /\ Cardinality(FinishedFor(Pushed, r)) = 1]_vars

\* C2, amended: once loadingFinished for r is handled, requests holds no
\* record for r; the handler emits exactly one RequestFinished, carrying
\* the record of r, when requests held one, and nothing when it held none.
C2_LoadingFinished ==
    [][\A r \in RequestIds :
           LoadingFinishedStep(r) =>
               /\ r \notin DOMAIN requests'
               /\ Pushed = IF r \in DOMAIN requests
                           THEN <<RequestFinished(requests[r])>>
                           ELSE <<>>]_vars

\* loadingFinished found the record of r1 and emitted its RequestFinished.
C2_Witness ==
    /\ last = Call("on_network_loading_finished", [request_id |-> "r1"])
    /\ "r1" \notin DOMAIN requests
    /\ Len(queued_events) = 1
    /\ queued_events[1].kind = "RequestFinished"
    /\ queued_events[1].request.request_id = "r1"

\* C3: set_offline_mode(v) with v the current offline value changes no
\* field and pushes no command; with another value it sets offline to v and
\* pushes exactly one emulateNetworkConditions(v, 0, -1, -1).
C3_SetOfflineMode ==
    [][\A v \in BOOLEAN :
           last' = Call("set_offline_mode", [value |-> v]) =>
               IF v = offline
               THEN UNCHANGED fields
               ELSE /\ offline' = v
                    /\ Pushed =
                           <<[kind |-> "SendCdpRequest",
                              method |-> "Network.emulateNetworkConditions",
                              params |-> [offline |-> v, latency |-> 0,
                                          download_throughput |-> -1,
                                          upload_throughput |-> -1]]>>
                    /\ UNCHANGED <<requests, requests_will_be_sent,
                                   extra_headers,
                                   request_id_to_interception_id,
                                   user_cache_disabled,
                                   attempted_authentications, knobs,
                                   interception>>]_vars

\* set_offline_mode(TRUE) was called on a manager already offline, after
\* the command of the first call was polled: nothing is queued.
C3_Witness ==
    /\ last = Call("set_offline_mode", [value |-> TRUE])
    /\ offline
    /\ queued_events = <<>>

\* C4: a requestWillBeSent with a data: URL is never buffered and consumes
\* no pre-assigned interception id: whatever the interception settings, it
\* creates the record of its RequestId with no interception id at once.
C4_DataUrlNotPaired ==
    [][\A event \in RequestWillBeSentEvents :
           (/\ last' = Call("on_request_will_be_sent", event)
            /\ StartsWith(event.url, "data:")) =>
               /\ UNCHANGED <<requests_will_be_sent,
                              request_id_to_interception_id>>
               /\ event.request_id \in DOMAIN requests'
               /\ requests'[event.request_id].interception_id = None
               /\ Pushed = <<Request(event.request_id)>>]_vars

\* A data: requestWillBeSent was handled with user interception on and
\* credentials set, and its record is there.
C4_Witness ==
    /\ last.op = "on_request_will_be_sent"
    /\ StartsWith(last.args.url, "data:")
    /\ user_request_interception_enabled
    /\ IsSome(credentials)
    /\ last.args.request_id \in DOMAIN requests
    /\ requests[last.args.request_id].interception_id = None
    /\ requests_will_be_sent = EmptyMap


\* The step is a Fetch.requestPaused; its event is last'.args.
RequestPausedStep == last'.op = "on_fetch_request_paused"

\* The paused request reaches the skip ladder: the manager is not in the
\* credentials-only bypass, the event carries a network id, and no
\* requestWillBeSent is buffered for that id.
ReachesLadder(event) ==
    /\ ~(/\ ~user_request_interception_enabled
         /\ protocol_request_interception_enabled)
    /\ IsSome(event.network_id)
    /\ Unwrap(event.network_id) \notin DOMAIN requests_will_be_sent

\* C5 as stated: with block_javascript set, a paused Script request for
\* https://cdn/react.production.min.js that reaches the skip ladder is
\* continued, not fulfilled.
C5_AsStated ==
    [][(/\ RequestPausedStep
        /\ block_javascript
        /\ last'.args.resource_type = "Script"
        /\ last'.args.url = "https://cdn/react.production.min.js"
        /\ ReachesLadder(last'.args)) =>
           Pushed = <<ContinueRequestParams(last'.args.request_id)>>]_vars

\* The paused request is a Script whose URL is the tracker URL of the
\* scenario, or any URL ignore_script accepts.
TrackerScript(event) ==
    /\ event.resource_type = "Script"
    /\ \/ event.url = "https://www.google-analytics.com/ga.js"
       \/ ignore_script(event.url)

\* C6 as stated: with block_analytics set, every paused tracker Script is
\* answered with fulfillRequest(200, empty body).
C6_AsStated ==
    [][(/\ RequestPausedStep
        /\ block_analytics
        /\ TrackerScript(last'.args)) =>
           Pushed = <<FulfillRequestParams(last'.args.request_id, 200)>>]_vars

\* C6, amended: with block_analytics set, every paused tracker Script that
\* reaches the skip ladder is answered with one fulfillRequest of status
\* 200 and no body, and with no continueRequest.
C6_TrackerScriptFulfilled ==
    [][(/\ RequestPausedStep
        /\ block_analytics
        /\ TrackerScript(last'.args)
        /\ ReachesLadder(last'.args)) =>
           Pushed =
               <<[kind |-> "SendCdpRequest",
                  method |-> "Fetch.fulfillRequest",
                  params |-> [request_id |-> last'.args.request_id,
                              response_code |-> 200,
                              body |-> None]]>>]_vars

\* The analytics script was paused with only block_analytics set and was
\* fulfilled.
C6_Witness ==
    /\ last.op = "on_fetch_request_paused"
    /\ last.args.resource_type = "Script"
    /\ last.args.url = "https://www.google-analytics.com/ga.js"
    /\ IsSome(last.args.network_id)
    /\ block_analytics
    /\ ~block_javascript /\ ~ignore_visuals /\ ~only_html
    /\ Len(queued_events) = 1
    /\ queued_events[1].method = "Fetch.fulfillRequest"

\* The effective need of interception: user interception or credentials.
Need == user_request_interception_enabled \/ IsSome(credentials)

\* The step pushed a command of the method.
PushedMethod(method) ==
    \E k \in 1..Len(Pushed) :
        Pushed[k].kind = "SendCdpRequest" /\ Pushed[k].method = method

\* C7 as stated: a step pushes Fetch.enable exactly when the effective need
\* turns from false to true, and Fetch.disable exactly when it turns from
\* true to false.
C7_AsStated ==
    [][/\ PushedMethod("Fetch.enable") <=> (~Need /\ Need')
       /\ PushedMethod("Fetch.disable") <=> (Need /\ ~Need')]_vars

\* C8 as stated: every setCacheDisabled pushed carries user_cache_disabled
\* or the effective need, so the cache is reported disabled while
\* interception is needed.
C8_AsStated ==
    [][\A k \in 1..Len(Pushed) :
           (/\ Pushed[k].kind = "SendCdpRequest"
            /\ Pushed[k].method = "Network.setCacheDisabled") =>
               Pushed[k].params.cache_disabled =
                   (user_cache_disabled' \/ Need')]_vars

\* C9: after set_extra_headers(h) the stored headers are h without the key
\* proxy-authorization, whatever was stored before, and exactly one
\* setExtraHTTPHeaders carrying the stored headers is pushed.
C9_SetExtraHeaders ==
    [][\A h \in HeaderMaps :
           last' = Call("set_extra_headers", [headers |-> h]) =>
               /\ extra_headers' =
                      [k \in DOMAIN h \ {"proxy-authorization"} |-> h[k]]
               /\ Pushed =
                      <<[kind |-> "SendCdpRequest",
                         method |-> "Network.setExtraHTTPHeaders",
                         params |-> [headers |-> extra_headers']]>>]_vars

\* Headers with proxy-authorization and x-a were set: x-a alone is stored
\* and sent.
C9_Witness ==
    /\ last.op = "set_extra_headers"
    /\ DOMAIN last.args.headers = {"proxy-authorization", "x-a"}
    /\ DOMAIN extra_headers = {"x-a"}
    /\ Len(queued_events) = 1
    /\ queued_events[1].method = "Network.setExtraHTTPHeaders"
    /\ queued_events[1].params.headers = extra_headers

\* C10: the events poll has returned, followed by the events still queued,
\* are the events pushed, in the order they were pushed: what poll returns
\* is a prefix of what was pushed.  A poll of an empty queue returns
\* nothing.
C10_PollOrder ==
    /\ [](enqueued = dequeued \o queued_events)
    /\ [][(last'.op = "poll" /\ queued_events = <<>>) =>
              dequeued' = dequeued]_vars

\* A command and then a Request event were pushed, and poll returned both,
\* the command first.
C10_Witness ==
    /\ Len(dequeued) = 2
    /\ dequeued[1].kind = "SendCdpRequest"
    /\ dequeued[2].kind = "Request"
    /\ enqueued = dequeued

\* The step is a Network.requestWillBeSent; its event is last'.args.
WillBeSentStep == last'.op = "on_request_will_be_sent"

\* C11 as stated: while interception is needed (user interception or
\* credentials), a requestWillBeSent with a URL that is no data: URL and
\* with no pre-assigned interception id is buffered: it creates no record
\* and pushes no Request event.
C11_AsStated ==
    [][(/\ WillBeSentStep
        /\ Need
        /\ ~StartsWith(last'.args.url, "data:")
        /\ last'.args.request_id \notin DOMAIN request_id_to_interception_id)
           =>
           /\ requests_will_be_sent' =
                  MapInsert(requests_will_be_sent, last'.args.request_id,
                            last'.args)
           /\ requests' = requests
           /\ Pushed = <<>>]_vars

\* C12 as stated: with user interception enabled, a requestPaused whose
\* network id was announced by a requestWillBeSent that awaits its pairing
\* leaves no buffered event for that id, leaves a record for it that stores
\* the paused request's interception id, and pushes a continueRequest for
\* the paused request.
C12_AsStated ==
    [][(/\ RequestPausedStep
        /\ user_request_interception_enabled
        /\ IsSome(last'.args.network_id)
        /\ Unwrap(last'.args.network_id) \in awaiting) =>
           LET network_id == Unwrap(last'.args.network_id)
           IN  /\ network_id \notin DOMAIN requests_will_be_sent'
               /\ network_id \in DOMAIN requests'
               /\ requests'[network_id].interception_id =
                      Some(last'.args.request_id)
               /\ ContinueRequestParams(last'.args.request_id) \in
                      {Pushed[k] : k \in 1..Len(Pushed)}]_vars

\* C13 as stated: with user interception disabled and credentials set,
\* every requestPaused is answered with one continueRequest, whatever its
\* resource type and URL and whatever the blocking fields.
C13_AsStated ==
    [][(/\ RequestPausedStep
        /\ ~user_request_interception_enabled
        /\ IsSome(credentials)) =>
           Pushed = <<ContinueRequestParams(last'.args.request_id)>>]_vars

\* C14 as stated: a paused Xhr request that reaches the skip ladder and
\* whose URL satisfies ignore_script_xhr_media is answered with
\* fulfillRequest(200, no body), whatever the blocking fields.
C14_AsStated ==
    [][(/\ RequestPausedStep
        /\ last'.args.resource_type = "Xhr"
        /\ ignore_script_xhr_media(last'.args.url)
        /\ ReachesLadder(last'.args)) =>
           Pushed = <<FulfillRequestParams(last'.args.request_id, 200)>>]_vars

\* The skip ladder, steps 1 to 7, as the specification words it: the URL
\* of an Xhr "ends with .css", or "ends with a visual asset extension"
\* (taken without regard to case), and the Xhr media classifier is
\* consulted whatever the blocking fields.
LadderAsSpecified(event) ==
    LET type == event.resource_type
        url == event.url
    IN  \/ type \in {"Prefetch", "Ping"}
        \/ ignore_visuals /\ type \in {"Image", "Media", "Font", "Other"}
        \/ block_stylesheets /\ type = "Stylesheet"
        \/ block_javascript /\ type = "Script" /\ url \notin JS_FRAMEWORK_ALLOW
        \/ /\ only_html \/ ignore_visuals
           /\ type \in {"Script", "Document"}
           /\ ignore_script_embedded(url)
        \/ block_analytics /\ type = "Script" /\ ignore_script(url)
        \/ /\ type = "Xhr"
           /\ \/ block_analytics /\ ignore_script_xhr(url)
              \/ block_stylesheets /\ EndsWith(url, ".css")
              \/ /\ ignore_visuals /\ only_html
                 /\ \E ext \in IGNORE_XHR_ASSETS :
                        EndsWith(ToLower(url), ext)
              \/ ignore_script_xhr_media(url)

\* C15 as stated: a paused request that reaches the skip ladder and matches
\* none of its steps 1 to 7 is answered with one continueRequest and with
\* no fulfillRequest.
C15_AsStated ==
    [][(/\ RequestPausedStep
        /\ ReachesLadder(last'.args)
        /\ ~LadderAsSpecified(last'.args)) =>
           Pushed = <<ContinueRequestParams(last'.args.request_id)>>]_vars

\* No element occurs twice in the sequence.
NoRepeat(seq) ==
    \A i, j \in 1..Len(seq) : seq[i] = seq[j] => i = j

\* C16: over any sequence of add and pop, no URL key is appended to pending
\* twice and no URL key is returned by pop twice.
C16_DedupIsPermanent == NoRepeat(appended) /\ NoRepeat(popped)

\* A key was popped and then added again, by another spelling of its URL:
\* the add was dropped.
C16_Witness ==
    /\ last = Call("add", [url |-> "https://Example.TEST/a#top",
                            depth |-> MaxDepth])
    /\ popped = <<"https://example.test/a">>
    /\ appended = <<"https://example.test/a">>
    /\ pending = <<>>
    /\ limit = 0

\* The crawl has ended: Pages were published, nothing is pending and no
\* fetch is in flight.
CrawlDone == pages # <<>> /\ pending = <<>> /\ in_flight = {}

\* The URLs of the Page stream, in order.
PageUrls == [i \in 1..Len(pages) |-> pages[i].url]

\* C17: with limit > 0 the frontier never holds more than limit visited
\* URLs; the seed is the first URL visited and the first Page; no URL
\* occurs twice in the Page stream; and a crawl with limit 3 whose pages
\* all delivered their two links ends with exactly 3 visited URLs.
C17_LimitHolds ==
    /\ limit > 0 => Cardinality(visited) <= limit
    /\ appended # <<>> => appended[1] = "https://example.test/"
    /\ pages # <<>> => pages[1].url = "https://example.test/"
    /\ NoRepeat(PageUrls)
    /\ (/\ CrawlDone
        /\ limit = 3
        /\ \A i \in 1..Len(pages) : ~pages[i].failed) =>
           Cardinality(visited) = 3

\* A crawl with limit 3 has ended: three pages, none failed, the seed
\* first, though the site has a fourth page.
C17_Witness ==
    /\ CrawlDone
    /\ limit = 3
    /\ Len(pages) = 3
    /\ \A i \in 1..3 : ~pages[i].failed
    /\ pages[1].url = "https://example.test/"
    /\ visited = {"https://example.test/", "https://example.test/a",
                  "https://example.test/b"}
    /\ "https://example.test/A" \in Scoped

\* The record that a redirect of request ends: request with the redirect
\* response attached and no chain of its own.
EndedHop(request, response) ==
    [request EXCEPT !.response = Some(response), !.redirect_chain = <<>>]

\* C18: a requestWillBeSent for r that carries a redirect_response, when r
\* has a record, leaves a record whose redirect_chain is the chain of the
\* old record followed by the old record itself, which holds the redirect
\* response and no chain; a requestWillBeSent without redirect_response
\* leaves a record with an empty chain.  So k redirects in a row leave k
\* entries in hop order, and the chains are flat.
C18_RedirectChain ==
    [][WillBeSentStep =>
           LET r == last'.args.request_id
               hop == last'.args.redirect_response
           IN  /\ r \in DOMAIN requests'
               /\ (IsSome(hop) /\ r \in DOMAIN requests) =>
                      requests'[r].redirect_chain =
                          Append(requests[r].redirect_chain,
                                 EndedHop(requests[r], Unwrap(hop)))
               /\ ~IsSome(hop) => requests'[r].redirect_chain = <<>>
               /\ \A i \in 1..Len(requests'[r].redirect_chain) :
                      /\ requests'[r].redirect_chain[i].redirect_chain = <<>>
                      /\ IsSome(requests'[r].redirect_chain[i].response)]_vars

\* r1 was redirected twice, by "moved" and then by "found": its chain holds
\* the two hops in that order.
C18_Witness ==
    /\ last.op = "on_request_will_be_sent"
    /\ last.args.redirect_response = Some("found")
    /\ "r1" \in DOMAIN requests
    /\ Len(requests["r1"].redirect_chain) = 2
    /\ requests["r1"].redirect_chain[1].response = Some("moved")
    /\ requests["r1"].redirect_chain[2].response = Some("found")
    /\ requests["r1"].redirect_chain[1].redirect_chain = <<>>
    /\ requests["r1"].redirect_chain[2].redirect_chain = <<>>
    /\ requests["r1"].response = None

\* The attempted authentications without the interception id of the
\* record, if it has one.
WithoutInterceptionOf(request) ==
    IF request.interception_id = None THEN attempted_authentications
    ELSE attempted_authentications \ {request.interception_id[1]}

\* C19: a loadingFailed for a RequestId that has a record removes the
\* record, removes the record's interception id from the attempted
\* authentications, and pushes exactly one event: RequestFailed carrying
\* the record with failure_text set to the event's error_text.
C19_LoadingFailed ==
    [][(/\ last'.op = "on_network_loading_failed"
        /\ last'.args.request_id \in DOMAIN requests) =>
           LET r == last'.args.request_id
           IN  /\ DOMAIN requests' = DOMAIN requests \ {r}
               /\ \A other \in DOMAIN requests' :
                      requests'[other] = requests[other]
               /\ attempted_authentications' =
                      WithoutInterceptionOf(requests[r])
               /\ Pushed =
                      <<[kind |-> "RequestFailed",
                         request |->
                             [requests[r] EXCEPT
                                  !.failure_text =
                                      Some(last'.args.error_text)]]>>]_vars

\* A request that was announced has failed: its record is gone and the one
\* event queued is its RequestFailed, with the error text.
C19_Witness ==
    /\ last.op = "on_network_loading_failed"
    /\ last.args.request_id \notin DOMAIN requests
    /\ Len(queued_events) = 1
    /\ queued_events[1].kind = "RequestFailed"
    /\ queued_events[1].request.request_id = last.args.request_id
    /\ queued_events[1].request.failure_text = Some(last.args.error_text)

\* The step is a responseReceived or a loadingFinished for a RequestId
\* that has a record.
FinishingStep ==
    /\ last'.op \in {"on_response_received", "on_network_loading_finished"}
    /\ last'.args.request_id \in DOMAIN requests

\* C20 as stated: responseReceived and loadingFinished, for a RequestId
\* that has a record, both remove the record's interception id from the
\* attempted authentications and push RequestFinished carrying the record
\* with a response attached.
C20_AsStated ==
    [][FinishingStep =>
           /\ attempted_authentications' =
                  WithoutInterceptionOf(requests[last'.args.request_id])
           /\ Len(Pushed) = 1
           /\ Pushed[1].kind = "RequestFinished"
           /\ Pushed[1].request.request_id = last'.args.request_id
           /\ Pushed[1].request.response # None]_vars

\* C21: an authRequired handled while no credentials are configured is
\* answered with Default and leaves attempted_authentications as it was; no
\* id is attempted or has been answered with ProvideCredentials while no
\* credentials are configured; so an authRequired for an id that was never
\* answered with ProvideCredentials, handled once credentials are
\* configured, is answered with ProvideCredentials.
C21_DefaultIsNotAnAttempt ==
    /\ [](~IsSome(credentials) =>
              attempted_authentications = {} /\ provided = {})
    /\ [][\A i \in InterceptionIds :
              AuthRequiredStep(i) =>
                  /\ ~IsSome(credentials) =>
                         /\ Len(Pushed) = 1
                         /\ Pushed[1].method = "Fetch.continueWithAuth"
                         /\ Pushed[1].params.request_id = i
                         /\ AuthAnswer(Pushed[1]) = "Default"
                         /\ attempted_authentications' =
                                attempted_authentications
                  /\ (IsSome(credentials) /\ i \notin provided) =>
                         /\ Len(Pushed) = 1
                         /\ Pushed[1].params.request_id = i
                         /\ AuthAnswer(Pushed[1]) = "ProvideCredentials"]_vars

\* An authRequired for i1 was answered Default with no credentials
\* configured, and i1 is not attempted.
C21_Witness ==
    /\ last = Call("on_fetch_auth_required", [request_id |-> "i1"])
    /\ ~IsSome(credentials)
    /\ Len(queued_events) = 1
    /\ queued_events[1].method = "Fetch.continueWithAuth"
    /\ AuthAnswer(queued_events[1]) = "Default"
    /\ "i1" \notin attempted_authentications

\* C22: when protocol interception is not enabled, a requestWillBeSent
\* leaves a fresh record for its request id in requests, with no
\* interception id, no response, no failure text and not from the memory
\* cache, leaves every other record as it was, pushes exactly one
\* Request(request id) event, and leaves requests_will_be_sent unchanged.
C22_ImmediateRequest ==
    [][(WillBeSentStep /\ ~protocol_request_interception_enabled) =>
           LET rid == last'.args.request_id
           IN  /\ DOMAIN requests' = DOMAIN requests \cup {rid}
               /\ requests'[rid].request_id = rid
               /\ requests'[rid].interception_id = None
               /\ requests'[rid].response = None
               /\ requests'[rid].failure_text = None
               /\ requests'[rid].from_memory_cache = FALSE
               /\ \A other \in DOMAIN requests \ {rid} :
                      requests'[other] = requests[other]
               /\ Pushed = <<Request(rid)>>
               /\ requests_will_be_sent' = requests_will_be_sent]_vars

\* A requestWillBeSent for r1 replaced the record of r1 (the old record is
\* in the new one's redirect chain) and pushed one Request(r1), with
\* nothing buffered.
C22_Witness ==
    /\ last.op = "on_request_will_be_sent"
    /\ last.args.request_id = "r1"
    /\ ~protocol_request_interception_enabled
    /\ "r1" \in DOMAIN requests
    /\ requests["r1"].interception_id = None
    /\ Len(requests["r1"].redirect_chain) = 1
    /\ queued_events = <<Request("r1")>>
    /\ DOMAIN requests_will_be_sent = {}

\* The one answer "fulfilled with an empty 200" for a paused request: one
\* Fetch.fulfillRequest of status 200 and no body.
FulfilledEmpty200(event) ==
    <<[kind |-> "SendCdpRequest",
       method |-> "Fetch.fulfillRequest",
       params |-> [request_id |-> event.request_id,
                   response_code |-> 200,
                   body |-> None]]>>

\* C23: a paused request of resource type Prefetch or Ping that reaches the
\* skip ladder is answered with one fulfillRequest of status 200 and no
\* body, for every value of the blocking knobs and every URL.
C23_PrefetchPingFulfilled ==
    [][(/\ RequestPausedStep
        /\ last'.args.resource_type \in {"Prefetch", "Ping"}
        /\ ReachesLadder(last'.args)) =>
           Pushed = FulfilledEmpty200(last'.args)]_vars

\* A Ping for a plain page URL was paused with every knob false and was
\* fulfilled.
C23_Witness ==
    /\ last.op = "on_fetch_request_paused"
    /\ last.args.resource_type = "Ping"
    /\ last.args.url = "https://a.test/page"
    /\ IsSome(last.args.network_id)
    /\ ~block_analytics /\ ~block_javascript /\ ~block_stylesheets
    /\ ~ignore_visuals /\ ~only_html
    /\ queued_events = FulfilledEmpty200(last.args)

\* The paused request is a Script or a Document whose URL satisfies
\* ignore_script_embedded.
EmbeddedScript(event) ==
    /\ event.resource_type \in {"Script", "Document"}
    /\ ignore_script_embedded(event.url)

\* The steps of the skip ladder other than the embedded-script step.
SkippedByAnotherStep(event) ==
    skip_xhr(SkipAnalytics(SkipMain(event), event), event)

\* With neither only_html nor ignore_visuals set, a paused request is
\* fulfilled only when a step other than the embedded-script step skips it.
EmbeddedStepIsOff ==
    (/\ RequestPausedStep
     /\ ~only_html /\ ~ignore_visuals
     /\ PushedMethod("Fetch.fulfillRequest")) =>
        /\ ReachesLadder(last'.args)
        /\ SkippedByAnotherStep(last'.args)

\* C24 as stated: with only_html or ignore_visuals set, every paused Script
\* or Document whose URL satisfies ignore_script_embedded is fulfilled with
\* an empty 200; with neither set, ignore_script_embedded causes no request
\* to be fulfilled.
C24_AsStated ==
    [][/\ (/\ RequestPausedStep
           /\ only_html \/ ignore_visuals
           /\ EmbeddedScript(last'.args)) =>
              Pushed = FulfilledEmpty200(last'.args)
       /\ EmbeddedStepIsOff]_vars

\* C24, amended: with only_html or ignore_visuals set, every paused Script
\* or Document whose URL satisfies ignore_script_embedded and that reaches
\* the skip ladder is answered with one fulfillRequest of status 200 and no
\* body; with neither set, ignore_script_embedded causes no request to be
\* fulfilled.
C24_EmbeddedScriptFulfilled ==
    [][/\ (/\ RequestPausedStep
           /\ only_html \/ ignore_visuals
           /\ EmbeddedScript(last'.args)
           /\ ReachesLadder(last'.args)) =>
              Pushed = FulfilledEmpty200(last'.args)
       /\ EmbeddedStepIsOff]_vars

\* A Document for an embedded player was paused with only only_html set and
\* was fulfilled.
C24_Witness ==
    /\ last.op = "on_fetch_request_paused"
    /\ last.args.resource_type = "Document"
    /\ last.args.url = "https://www.youtube.com/embed/x"
    /\ IsSome(last.args.network_id)
    /\ only_html
    /\ ~ignore_visuals /\ ~block_analytics /\ ~block_javascript
    /\ ~block_stylesheets
    /\ queued_events = FulfilledEmpty200(last.args)

\* C25: with block_stylesheets set, a paused Xhr request whose URL ends
\* with .css and that reaches the skip ladder is answered with one
\* fulfillRequest of status 200 and no body, whatever the values of
\* ignore_visuals, only_html, block_analytics and block_javascript.
C25_XhrStylesheetFulfilled ==
    [][(/\ RequestPausedStep
        /\ block_stylesheets
        /\ last'.args.resource_type = "Xhr"
        /\ EndsWith(last'.args.url, ".css")
        /\ ReachesLadder(last'.args)) =>
           Pushed = FulfilledEmpty200(last'.args)]_vars

\* An Xhr for a .css URL was paused with only block_stylesheets set and was
\* fulfilled.
C25_Witness ==
    /\ last.op = "on_fetch_request_paused"
    /\ last.args.resource_type = "Xhr"
    /\ last.args.url = "https://a.test/s.css"
    /\ IsSome(last.args.network_id)
    /\ block_stylesheets
    /\ ~ignore_visuals /\ ~only_html /\ ~block_analytics /\ ~block_javascript
    /\ queued_events = FulfilledEmpty200(last.args)

ContainsPrefixOfNonEmptyWords ==
    (last.op = "contains_prefix" /\ "" \notin words) =>
        (Unwrap(returned) <=>
             \E word \in words : StartsWith(last.args.text, word))

\* Some pattern of the tracker table is a prefix of url.
TrackerPrefix(url) == \E pattern \in URL_IGNORE_PATTERNS : StartsWith(url, pattern)

\* url ends with one of the four tracker file names.
TrackerEnding(url) ==
    \E ending \in {"analytics.js", "ads.js", "tracking.js", "track.js"} :
        EndsWith(url, ending)

\* C27: ignore_script(url) returns true exactly when a pattern of the
\* tracker table is a prefix of url or url ends with analytics.js, ads.js,
\* tracking.js or track.js, and false in every other case.
C27_IgnoreScript ==
    last.op = "ignore_script" =>
        (Unwrap(returned) <=>
             TrackerPrefix(last.args.url) \/ TrackerEnding(last.args.url))

\* ignore_script returned true for a URL that no pattern of the table
\* starts and that ends with track.js.
C27_Witness ==
    /\ last = Call("ignore_script", [url |-> "https://a.test/js/track.js"])
    /\ ~TrackerPrefix(last.args.url)
    /\ returned = Some(TRUE)

\* The elements of seq.
Range(seq) == {seq[i] : i \in 1..Len(seq)}

\* The number of positions of seq that hold x.
Occurrences(seq, x) == Cardinality({i \in 1..Len(seq) : seq[i] = x})

\* The list a DocumentSelectors map holds for key, empty when the key is
\* absent.
ListOf(map, key) == IF key \in DOMAIN map THEN map[key] ELSE <<>>

\* The strings of a key that go to its css list and to its xpath list.
ToCss(selector_set) ==
    {s \in Range(selector_set) : IsSome(ParsedCss[s])}
ToXpath(selector_set) ==
    {s \in Range(selector_set) : ~IsSome(ParsedCss[s]) /\ ValidXpath[s]}

\* C28: build_selectors puts every selector string of every key in exactly
\* one place: once in the key's css list, parsed, when it parses as CSS;
\* else once in the key's xpath list when it is a valid XPath; else
\* nowhere.  The lists hold nothing else, a key is in the css (xpath) map
\* exactly when one of its strings went to its css (xpath) list, and no
\* key maps to an empty list.
C28_BuildSelectors ==
    last.op = "build_selectors" =>
        LET selectors == last.args.selectors
            out == Unwrap(returned)
        IN  /\ DOMAIN out.css \subseteq DOMAIN selectors
            /\ DOMAIN out.xpath \subseteq DOMAIN selectors
            /\ \A key \in DOMAIN selectors :
                   LET css == ListOf(out.css, key)
                       xpath == ListOf(out.xpath, key)
                   IN  /\ \A s \in ToCss(selectors[key]) :
                              Occurrences(css, Unwrap(ParsedCss[s])) = 1
                       /\ \A s \in Range(selectors[key]) :
                              Occurrences(xpath, s) =
                                  IF s \in ToXpath(selectors[key])
                                  THEN 1 ELSE 0
                       /\ Len(css) = Cardinality(ToCss(selectors[key]))
                       /\ Len(xpath) = Cardinality(ToXpath(selectors[key]))
                       /\ key \in DOMAIN out.css <=>
                              ToCss(selectors[key]) # {}
                       /\ key \in DOMAIN out.xpath <=>
                              ToXpath(selectors[key]) # {}
            /\ \A key \in DOMAIN out.css : out.css[key] # <<>>
            /\ \A key \in DOMAIN out.xpath : out.xpath[key] # <<>>

\* build_selectors sent the selectors of key list to three places, one of
\* them a string that is both a CSS selector and an XPath, and dropped
\* key title, whose only selector is neither.
C28_Witness ==
    /\ last.op = "build_selectors"
    /\ last.args.selectors =
           [key \in {"list", "title"} |->
                IF key = "list" THEN <<"div", "//li", "<<<">> ELSE <<"">>]
    /\ returned =
           Some([css |-> [key \in {"list"} |->
                              <<[kind |-> "type", name |-> "div"]>>],
                 xpath |-> [key \in {"list"} |-> <<"//li">>]])

\* The step was a call of one of the two query functions.
QueryCalled ==
    last.op \in {"css_query_select_map", "css_query_select_map_streamed"}

\* The CSS selector string s matches the element: s is the element's name
\* or '.' and the element's class.
CssMatch(element, s) ==
    \/ s = element.name
    \/ element.class # "" /\ s = "." \o element.class

\* The selector string s, of either language, matches the element.
AnyMatch(element, s) == CssMatch(element, s) \/ s = "//" \o element.name

\* Key has a CSS selector that matches an element of the document whose
\* extracted text is not empty.
CssHit(html, map, key) ==
    \E s \in Range(map[key]) :
        \E i \in 1..Len(html.elements) :
            /\ CssMatch(html.elements[i], s)
            /\ ElementText(html.elements[i]) # ""

\* No selector of key matches an element of the document.
MatchesNothing(html, map, key) ==
    \A s \in Range(map[key]) :
        \A i \in 1..Len(html.elements) : ~AnyMatch(html.elements[i], s)

\* C29: after css_query_select_map or css_query_select_map_streamed, every
\* key with a CSS selector that matches an element with non-empty
\* extracted text is in the returned map with a non-empty list, whatever
\* the other selectors of the key match; every key whose selectors match
\* nothing is absent; and the map holds keys of the selector map only.
C29_QuerySelectMap ==
    QueryCalled =>
        LET html == last.args.html
            map == last.args.map
            out == Unwrap(returned)
        IN  /\ DOMAIN out \subseteq DOMAIN map
            /\ \A key \in DOMAIN map :
                   /\ CssHit(html, map, key) =>
                          key \in DOMAIN out /\ out[key] # <<>>
                   /\ MatchesNothing(html, map, key) => key \notin DOMAIN out

\* The streamed query of the list document returned the text of key list,
\* whose first selector matches nothing, and not key title, whose selector
\* matches nothing.
C29_Witness ==
    /\ last.op = "css_query_select_map_streamed"
    /\ last.args.html = ListDocument
    /\ last.args.map =
           [key \in {"list", "title"} |->
                IF key = "list" THEN <<".sub-list", ".list">>
                ELSE <<".sub-list">>]
    /\ returned = Some([key \in {"list"} |-> <<"Test">>])

\* C30 as stated: in every reachable state of the manager,
\* protocol_request_interception_enabled equals
\* (user_request_interception_enabled or credentials are set).
C30_AsStated ==
    protocol_request_interception_enabled <=>
        (user_request_interception_enabled \/ IsSome(credentials))

\* C31: in every reachable state of the manager, handling one
\* requestPaused pushes exactly one command, addressed to the paused
\* request id: a Fetch.continueRequest or a Fetch.fulfillRequest of status
\* 200.
C31_OneAnswer ==
    [][RequestPausedStep =>
           \/ Pushed = <<ContinueRequestParams(last'.args.request_id)>>
           \/ Pushed = FulfilledEmpty200(last'.args)]_vars

\* With interception requested, a requestWillBeSent announced r1 and left
\* its record, and the requestPaused that names r1 was answered with one
\* continueRequest.
C31_Witness ==
    /\ last.op = "on_fetch_request_paused"
    /\ last.args.network_id = Some("r1")
    /\ user_request_interception_enabled
    /\ "r1" \in DOMAIN requests
    /\ queued_events = <<ContinueRequestParams(last.args.request_id)>>

\* C32: for every request id, the RequestFinished and RequestFailed events
\* pushed never outnumber the Request events pushed; and once
\* responseReceived has pushed a RequestFinished for an id, a
\* loadingFinished or loadingFailed for that id, with no Request event for
\* it in between, pushes nothing.
C32_OneTerminalEvent ==
    /\ [](\A r \in RequestIds : lifecycle.ended[r] <= lifecycle.requested[r])
    /\ [][(/\ last'.op \in {"on_network_loading_finished",
                            "on_network_loading_failed"}
           /\ last'.args.request_id \in lifecycle.responded) =>
              Pushed = <<>>]_vars

\* After one Request and the RequestFinished of a responseReceived for r1,
\* a loadingFinished for r1 was handled and pushed nothing.
C32_Witness ==
    /\ last = Call("on_network_loading_finished", [request_id |-> "r1"])
    /\ "r1" \in lifecycle.responded
    /\ lifecycle.requested["r1"] = 1
    /\ lifecycle.ended["r1"] = 1
    /\ queued_events = <<>>

\* The fields other than requests and queued_events.
fields_but_requests ==
    <<requests_will_be_sent, extra_headers, request_id_to_interception_id,
      user_cache_disabled, attempted_authentications, credentials,
      user_request_interception_enabled,
      protocol_request_interception_enabled, offline, ignore_visuals,
      block_stylesheets, block_javascript, block_analytics, only_html>>

\* C33: a responseReceived, loadingFinished, loadingFailed or
\* requestServedFromCache for a request id with no record leaves every
\* field of the manager as it was and pushes nothing; a
\* requestServedFromCache for an id with a record sets from_memory_cache of
\* that record, leaves the rest of the record, every other record and
\* every other field as they were, and pushes nothing.
C33_NoRecordNoEffect ==
    [][/\ (/\ last'.op \in {"on_response_received",
                            "on_network_loading_finished",
                            "on_network_loading_failed",
                            "on_request_served_from_cache"}
           /\ last'.args.request_id \notin DOMAIN requests) =>
              /\ fields' = fields
              /\ Pushed = <<>>
       /\ (/\ last'.op = "on_request_served_from_cache"
           /\ last'.args.request_id \in DOMAIN requests) =>
              /\ requests' =
                     [requests EXCEPT
                          ![last'.args.request_id].from_memory_cache = TRUE]
              /\ fields_but_requests' = fields_but_requests
              /\ queued_events' = queued_events
              /\ Pushed = <<>>]_vars

\* A requestServedFromCache for r2, which has no record, was handled while
\* r1 had one, fresh, and nothing was pushed.
C33_Witness ==
    /\ last = Call("on_request_served_from_cache", [request_id |-> "r2"])
    /\ DOMAIN requests = {"r1"}
    /\ ~requests["r1"].from_memory_cache
    /\ queued_events = <<>>

\* C34 as stated: a Fetch.continueWithAuth carries the configured username
\* and password only when its response is ProvideCredentials; a CancelAuth
\* or a Default carries none.
C34_AsStated ==
    [][\A i \in InterceptionIds :
           (AuthRequiredStep(i) /\ Len(Pushed) = 1) =>
               LET auth == Pushed[1].params.auth_challenge_response
               IN  auth.response \in {"CancelAuth", "Default"} =>
                       auth.username = None /\ auth.password = None]_vars

\* Two lists hold the same items the same number of times.
SameItems(a, b) ==
    /\ Len(a) = Len(b)
    /\ \A item \in Range(a) \cup Range(b) :
           Occurrences(a, item) = Occurrences(b, item)

\* Two query maps have the same keys and, for every key, lists that hold
\* the same items the same number of times.
SameMap(a, b) ==
    /\ DOMAIN a = DOMAIN b
    /\ \A key \in DOMAIN a : SameItems(a[key], b[key])

\* C35 as stated: for every document and every DocumentSelectors,
\* css_query_select_map_streamed and css_query_select_map return the same
\* map, the order of the items of a list left aside.
C35_AsStated ==
    /\ last.op = "css_query_select_map_streamed" =>
           SameMap(Unwrap(returned),
                   css_query_select_map(last.args.html,
                                        build_selectors(last.args.map)))
    /\ last.op = "css_query_select_map" =>
           SameMap(Unwrap(returned),
                   css_query_select_map_streamed(
                       last.args.html, build_selectors(last.args.map)))

=============================================================================
